---- MODULE Spec2Model ----
(***************************************************************************)
(* Memetic Warfare: the influence estimation and search engine.            *)
(*                                                                         *)
(*   - the edge cost functions and heuristics of the two A* modes          *)
(*     (src/src/algorithms/astar-modes.ts),                                *)
(*   - the A* pathfinder astarInfluencePath (src/unnamed/part_003),        *)
(*   - the spread estimator and the CELF / CELF++ seed selectors           *)
(*     (src/src/algorithms/celf/strategy-comparison.ts).                   *)
(*                                                                         *)
(* Numbers.  The program computes in floating point.  The model computes   *)
(* exactly, in integers: every attribute is stored as a multiple of a      *)
(* resolution, and every cost, probability and heuristic value v is stored *)
(* as the integer v * Scale.                                               *)
(*     tenths   : trust weight, political_leaning, political_bias,         *)
(*                education_level, complexity, social_activity             *)
(*     halves   : critical_thinking, emotional_susceptibility,             *)
(*                virality_factor, source_credibility                      *)
(*     quarters : factual_accuracy                                         *)
(* With these resolutions every product the cost functions form is an      *)
(* integer over a denominator that divides Scale, so no rounding happens.  *)
(***************************************************************************)
EXTENDS Integers, Sequences, FiniteSets, TLC

VARIABLES
    service,        \* which routine of the library the caller invoked
    \* ---- the trust graph and the content item (inputs of every call)
    nodes,          \* network.nodes: the node ids, in array order
    attrs,          \* node id -> identity_class and attributes
    trust,          \* node id -> trust_network (neighbour id -> weight)
    nodeState,      \* node id -> node.state
    meme,           \* the content item's attributes
    \* ---- calculateSocialTrustCost / calculateMemeTrustCost, called alone
    costIn,         \* the arguments (sourceNode, targetNode, trustWeight)
    costOut,        \* the values returned (done = FALSE before the call)
    \* ---- astarInfluencePath
    startNodeId, targetNodeId, mode,    \* its arguments
    pc,             \* "call", "loop" (the while loop's head), "returned"
    openSet,        \* PriorityQueue.items: <<[priority, item]>>
    gScores,        \* best known cost per node (a partial map)
    fScores,        \* g + h per node (a partial map)
    closedSet,
    frames,         \* one AStarFrame per pop
    result,         \* the AStarResult returned
    \* ---- celfSelection / celfPlusPlusSelection
    budget, simulations,                \* their arguments
    draws,          \* the value Math.random() returns when the cascade
                    \* tries the directed edge <<u, v>>
    celf,           \* celfSelection's locals: pc, seeds, seedSet, Q, calls
    celfpp,         \* celfPlusPlusSelection's: also lastSeed, curBest
    \* ---- the game engine and the CompetitiveMode component
    gameState,      \* the GameState held by the caller (node states are in
                    \* nodeState: the network's node objects are shared)
    gameConfig,     \* the GameConfig
    attackerStrategy, defenderStrategy,
    lastCall,       \* the engine call or handler that ran last, its move,
                    \* what it did, and (input) how the state object it was
                    \* passed reads afterwards
    callCount,      \* calls, or resets, made so far
    \* ---- generateNetwork
    genConfig,      \* the NetworkConfig: type, size, avg_degree
    network,        \* the Network being built: nodes (with their
                    \* trust_network) and edges
    gen             \* the generator's position and loop locals

costVars == <<costIn, costOut>>
netVars == <<nodes, attrs, trust, nodeState, meme>>
astarArgs == <<startNodeId, targetNodeId, mode>>
astarVars == <<pc, openSet, gScores, fScores, closedSet, frames, result>>
celfArgs == <<budget, simulations, draws>>
celfVars == <<celf, celfpp>>
gameVars == <<gameState, gameConfig, attackerStrategy, defenderStrategy,
              lastCall, callCount>>
genVars == <<genConfig, network, gen>>
vars == <<service, netVars, costVars, astarArgs, astarVars, celfArgs,
          celfVars, gameVars, genVars>>

----------------------------------------------------------------------------
(* Fixed point.                                                            *)

Scale == 64 * 1000000

Abs(x) == IF x < 0 THEN -x ELSE x

Min(a, b) == IF a < b THEN a ELSE b

\* A Math.max that forgets its first argument (a lower clamp left out).
MaxIgnoringFloor(a, b) == b

Max(a, b) == IF a > b THEN a ELSE b

\* clamp(value, min, max) of propagation.ts; the same Math.max(min,
\* Math.min(max, value)) is written inline in astar-modes.ts.
clamp(value, min, max) == Max(min, Min(max, value))

\* The literals of the source, times Scale.
Lit005 == Scale \div 20
Lit095 == 19 * (Scale \div 20)
Lit2 == 2 * Scale

----------------------------------------------------------------------------
(* astar-modes.ts: the two cost functions.                                 *)

\* MODE 1.  baseCost is in tenths, identitySimilarity in tenths,
\* politicalFactor and activityFactor in hundredths: the product is over
\* 10^6, and Scale / 10^6 = 64.
calculateSocialTrustCost(sourceNode, targetNode, trustWeight) ==
    LET baseCost == 10 - trustWeight
        identitySimilarity ==
            IF sourceNode.identity_class = targetNode.identity_class
            THEN 8 ELSE 10
        politicalDistance ==
            Abs(sourceNode.political_leaning - targetNode.political_leaning)
        politicalFactor == 100 + politicalDistance * 3
        activityFactor == 100 - targetNode.social_activity * 2
        totalCost ==
            baseCost * identitySimilarity * politicalFactor * activityFactor
    IN  Max(Lit005, Min(Lit2, totalCost * 64))

\* MODE 2.  The clamped acceptance probability the cost is the inverse of.
\* trustFactor /10, politicalAlignment /10, criticalThinkingPenalty /8,
\* complexityPenalty /100, credibilityFactor /20, viralityBoost /4,
\* BASE_RECEPTIVITY 3/10: the product is over
\* 10 * 10 * 10 * 8 * 100 * 4 * 20 = Scale.
MemeTrustClampedProb(node, m, sourceNode, trustWeight) ==
    LET BASE_RECEPTIVITY == 3
        trustFactor == trustWeight
        politicalDistance == Abs(node.political_leaning - m.political_bias)
        politicalAlignment == 10 - politicalDistance
        criticalThinkingPenalty ==
            IF m.factual_accuracy < 2
            THEN node.critical_thinking * (4 - m.factual_accuracy)
            ELSE 0
        complexityPenalty == Abs(m.complexity - node.education_level) * 3
        credibilityFactor == 14 + m.source_credibility * 3
        alignmentScore ==
            politicalAlignment * (8 - criticalThinkingPenalty)
                * (100 - complexityPenalty)
        viralityBoost ==
            4 + m.virality_factor * node.emotional_susceptibility
        acceptanceProbability ==
            BASE_RECEPTIVITY * trustFactor * alignmentScore * viralityBoost
                * credibilityFactor
    IN  Max(Lit005, Min(Lit095, acceptanceProbability))

calculateMemeTrustCost(node, m, sourceNode, trustWeight) ==
    Scale - MemeTrustClampedProb(node, m, sourceNode, trustWeight)

----------------------------------------------------------------------------
(* astar-modes.ts: the two heuristics.  A node is passed as its id; its    *)
(* attributes are attrs[id] and its trust_network is trust[id].            *)

\* currentNode.trust_network[targetNode.id] !== undefined
HasTrust(currentNode, targetNode) == targetNode \in DOMAIN trust[currentNode]

socialTrustHeuristic(currentNode, targetNode) ==
    LET identityDistance ==
            IF attrs[currentNode].identity_class
                = attrs[targetNode].identity_class
            THEN 0 ELSE Scale \div 2
        politicalDistance ==
            Abs(attrs[currentNode].political_leaning
                - attrs[targetNode].political_leaning)
        politicalCost == politicalDistance * (Scale \div 20)
        connectionCost ==
            IF HasTrust(currentNode, targetNode)
            THEN (10 - trust[currentNode][targetNode]) * (Scale \div 20)
            ELSE Scale
        activityCost ==
            (10 - attrs[targetNode].social_activity) * 3 * (Scale \div 100)
    IN  identityDistance + politicalCost + connectionCost + activityCost

memeTrustHeuristic(currentNode, targetNode, m) ==
    LET targetMemeAlignment ==
            Abs(attrs[targetNode].political_leaning - m.political_bias)
        alignmentCost == targetMemeAlignment * 15 * (Scale \div 100)
        criticalBarrier ==
            IF m.factual_accuracy < 2
            THEN attrs[targetNode].critical_thinking * 4 * (Scale \div 10)
            ELSE 0
        complexityMismatch ==
            Abs(m.complexity - attrs[targetNode].education_level)
                * 4 * (Scale \div 100)
        emotionalResistance ==
            (2 - attrs[targetNode].emotional_susceptibility)
                * (2 - m.virality_factor) * 3 * (Scale \div 40)
        socialCost ==
            IF HasTrust(currentNode, targetNode)
            THEN (10 - trust[currentNode][targetNode]) * 3 * (Scale \div 100)
            ELSE 8 * (Scale \div 10)
    IN  alignmentCost + criticalBarrier + complexityMismatch
            + emotionalResistance + socialCost

calculateHeuristic(currentNode, targetNode, m, md) ==
    IF md = "social_trust"
    THEN socialTrustHeuristic(currentNode, targetNode)
    ELSE memeTrustHeuristic(currentNode, targetNode, m)

\* The cost of stepping over the edge currentNode -> neighbor, as the main
\* loop of astarInfluencePath computes it.
stepCost(currentNode, neighbor, md) ==
    LET trustWeight == trust[currentNode][neighbor]
    IN  IF md = "social_trust"
        THEN calculateSocialTrustCost(attrs[currentNode], attrs[neighbor],
                                      trustWeight)
        ELSE calculateMemeTrustCost(attrs[neighbor], meme,
                                    attrs[currentNode], trustWeight)

----------------------------------------------------------------------------
(* part_003: PriorityQueue.                                                *)

\* A sort with the comparator reversed, (a, b) => b.priority - a.priority.
RECURSIVE SortByPriorityReversed(_)
SortByPriorityReversed(items) ==
    IF items = <<>> THEN <<>>
    ELSE LET front == SortByPriorityReversed(SubSeq(items, 1, Len(items) - 1))
             last == items[Len(items)]
             k == Cardinality({i \in 1..Len(front) :
                                 front[i].priority >= last.priority})
         IN  SubSeq(front, 1, k) \o <<last>>
                \o SubSeq(front, k + 1, Len(front))

\* A sort that places an element before those of equal priority.
RECURSIVE SortByPriorityUnstable(_)
SortByPriorityUnstable(items) ==
    IF items = <<>> THEN <<>>
    ELSE LET front == SortByPriorityUnstable(SubSeq(items, 1, Len(items) - 1))
             last == items[Len(items)]
             k == Cardinality({i \in 1..Len(front) :
                                 front[i].priority < last.priority})
         IN  SubSeq(front, 1, k) \o <<last>>
                \o SubSeq(front, k + 1, Len(front))

\* items.sort((a, b) => a.priority - b.priority): a stable sort.  Each
\* element is inserted, in array order, behind every element already
\* placed whose priority is lower or equal.
RECURSIVE SortByPriority(_)
SortByPriority(items) ==
    IF items = <<>> THEN <<>>
    ELSE LET front == SortByPriority(SubSeq(items, 1, Len(items) - 1))
             last == items[Len(items)]
             k == Cardinality({i \in 1..Len(front) :
                                 front[i].priority <= last.priority})
         IN  SubSeq(front, 1, k) \o <<last>>
                \o SubSeq(front, k + 1, Len(front))

PQPush(items, priority, item) ==
    SortByPriority(Append(items, [priority |-> priority, item |-> item]))

\* A pop that returns the first entry and leaves it in the array.
PQPopKeeping(items) == items

\* pop(): items.shift()?.item
PQPop(items) == Tail(items)

PQTop(items) == Head(items).item

----------------------------------------------------------------------------
(* part_003: astarInfluencePath.                                           *)

Range(seq) == {seq[i] : i \in 1..Len(seq)}

\* cost: Infinity of a failure result
Infinity == 30 * Scale

\* propagation.ts getNeighbors: network.nodes filtered, in array order.
getNeighbors(nodeId) ==
    IF nodeId \notin Range(nodes) THEN <<>>
    ELSE SelectSeq(nodes, LAMBDA n : n \in DOMAIN trust[nodeId])

\* gScores[id] = value on a Record<string, number>
Put(map, key, value) ==
    [k \in DOMAIN map \cup {key} |-> IF k = key THEN value ELSE map[k]]

\* A new path that keeps the source alone before the neighbour.
newPathFromSource(current, neighbor) == <<current.path[1], neighbor>>

\* Line 207: const newPath = [...current.path, neighbor.id]
newPath(current, neighbor) == Append(current.path, neighbor)

\* The for loop over the neighbours of the popped entry `current`: st is
\* the loop's state, [open, g, f].
RECURSIVE ExpandNeighbors(_, _, _)
ExpandNeighbors(neighbors, current, st) ==
    IF neighbors = <<>> THEN st
    ELSE LET neighbor == Head(neighbors)
             tentativeGScore ==
                current.gScore + stepCost(current.nodeId, neighbor, mode)
             hScore == calculateHeuristic(neighbor, targetNodeId, meme, mode)
             fScore == tentativeGScore + hScore
             better ==
                \/ neighbor \notin DOMAIN st.g
                \/ tentativeGScore < st.g[neighbor]
             next ==
                IF neighbor \in closedSet \cup {current.nodeId} THEN st
                ELSE IF ~better THEN st
                ELSE [open |-> PQPush(st.open, fScore,
                                 [nodeId |-> neighbor,
                                  path |-> newPath(current, neighbor),
                                  gScore |-> tentativeGScore]),
                      g |-> Put(st.g, neighbor, tentativeGScore),
                      f |-> Put(st.f, neighbor, fScore)]
         IN  ExpandNeighbors(Tail(neighbors), current, next)

\* A failure result that counts the entries popped, not the nodes closed.
FailureResultCountingPops(explored, fr) ==
    [success |-> FALSE, path |-> <<>>, cost |-> Infinity,
     exploredCount |-> fr, frames |-> fr]

\* A failure result that keeps the start id as its path.
FailureResultKeepingStart(explored, fr) ==
    [success |-> FALSE, path |-> <<startNodeId>>, cost |-> Infinity,
     exploredCount |-> explored, frames |-> fr]

\* The two failure returns, lines 114-121 and 223-230.
FailureResult(explored, fr) ==
    [success |-> FALSE, path |-> <<>>, cost |-> Infinity,
     exploredCount |-> explored, frames |-> fr]

\* Lines 110-147: the lookups, the early return, the first push.
AStarEnter ==
    /\ service = "astar"
    /\ pc = "call"
    /\ IF startNodeId \notin Range(nodes) \/ targetNodeId \notin Range(nodes)
       THEN /\ result' = FailureResult(0, 0)
            /\ pc' = "returned"
            /\ UNCHANGED <<openSet, gScores, fScores, closedSet, frames>>
       ELSE /\ openSet' = PQPush(<<>>, 0,
                            [nodeId |-> startNodeId,
                             path |-> <<startNodeId>>,
                             gScore |-> 0])
            /\ gScores' = Put(<<>>, startNodeId, 0)
            /\ fScores' = Put(<<>>, startNodeId,
                            calculateHeuristic(startNodeId, targetNodeId,
                                               meme, mode))
            /\ closedSet' = {}
            /\ frames' = <<>>
            /\ pc' = "loop"
            /\ UNCHANGED result
    /\ UNCHANGED <<service, gameVars, genVars,
                   netVars, costVars, astarArgs, celfArgs, celfVars>>

\* The frame pushed for the popped entry (openSet is left empty by the
\* source; the message is not modelled).
Frame(current) ==
    [step |-> Len(frames),
     currentNode |-> current.nodeId,
     closedSet |-> closedSet,
     path |-> current.path,
     gScores |-> gScores,
     fScores |-> fScores]

\* An iteration that closes the popped node before the target test.
AStarReachTargetAfterClosing ==
    /\ service = "astar"
    /\ pc = "loop"
    /\ openSet # <<>>
    /\ LET current == PQTop(openSet)
       IN  /\ current.nodeId = targetNodeId
           /\ openSet' = PQPop(openSet)
           /\ frames' = Append(frames, Frame(current))
           /\ closedSet' = closedSet \cup {current.nodeId}
           /\ result' = [success |-> TRUE, path |-> current.path,
                         cost |-> current.gScore,
                         exploredCount |-> Cardinality(closedSet'),
                         frames |-> Len(frames) + 1]
           /\ pc' = "returned"
    /\ UNCHANGED <<service, gameVars, genVars,
                   netVars, costVars, astarArgs, gScores, fScores,
                   celfArgs, celfVars>>

\* One iteration of the while loop that pops the target: lines 150-176.
AStarReachTarget ==
    /\ service = "astar"
    /\ pc = "loop"
    /\ openSet # <<>>
    /\ LET current == PQTop(openSet)
       IN  /\ current.nodeId = targetNodeId
           /\ openSet' = PQPop(openSet)
           /\ frames' = Append(frames, Frame(current))
           /\ result' = [success |-> TRUE, path |-> current.path,
                         cost |-> current.gScore,
                         exploredCount |-> Cardinality(closedSet),
                         frames |-> Len(frames) + 1]
           /\ pc' = "returned"
    /\ UNCHANGED <<service, gameVars, genVars,
                   netVars, costVars, astarArgs, gScores, fScores,
                   closedSet, celfArgs, celfVars>>

\* One iteration of the while loop that pops another node: lines 150-219.
AStarExpand ==
    /\ service = "astar"
    /\ pc = "loop"
    /\ openSet # <<>>
    /\ LET current == PQTop(openSet)
           st == ExpandNeighbors(getNeighbors(current.nodeId), current,
                    [open |-> PQPop(openSet), g |-> gScores, f |-> fScores])
       IN  /\ current.nodeId # targetNodeId
           /\ frames' = Append(frames, Frame(current))
           /\ closedSet' = closedSet \cup {current.nodeId}
           /\ openSet' = st.open
           /\ gScores' = st.g
           /\ fScores' = st.f
    /\ UNCHANGED <<service, gameVars, genVars,
                   netVars, costVars, astarArgs, pc, result,
                   celfArgs, celfVars>>

\* The loop ends with the frontier empty: lines 222-230.
AStarExhausted ==
    /\ service = "astar"
    /\ pc = "loop"
    /\ openSet = <<>>
    /\ result' = FailureResult(Cardinality(closedSet), Len(frames))
    /\ pc' = "returned"
    /\ UNCHANGED <<service, gameVars, genVars,
                   netVars, costVars, astarArgs, openSet, gScores,
                   fScores, closedSet, frames, celfArgs, celfVars>>

NextAStar ==
    \/ AStarEnter
    \/ AStarReachTarget
    \/ AStarExpand
    \/ AStarExhausted

----------------------------------------------------------------------------
(* propagation.ts: calculateAcceptanceProbability, as estimateSpread calls *)
(* it.  trustFactor /10, politicalAlignment /10, criticalThinkingPenalty   *)
(* /8, viralityBoost /4, BASE_RECEPTIVITY 3/10: the product is over        *)
(* 32000, and Scale / 32000 = 2000.                                        *)

\* The formula with a credibility factor 0.7 + 0.3 * source_credibility
\* ((14 + 3 * source_credibility) / 20 in halves): the product is over
\* 640000, and Scale / 640000 = 100.
calculateAcceptanceWithCredibility(node, m, sourceNode, trustWeight) ==
    LET politicalAlignment ==
            10 - Abs(node.political_leaning - m.political_bias)
        criticalThinkingPenalty ==
            IF m.factual_accuracy < 2
            THEN node.critical_thinking * (4 - m.factual_accuracy)
            ELSE 0
        viralityBoost ==
            4 + m.virality_factor * node.emotional_susceptibility
        credibilityFactor == 14 + 3 * m.source_credibility
        probability ==
            3 * trustWeight * politicalAlignment
              * (8 - criticalThinkingPenalty) * viralityBoost
              * credibilityFactor
    IN  clamp(probability * 100, Lit005, Lit095)

calculateAcceptanceProbability(node, m, sourceNode, trustWeight) ==
    LET BASE_RECEPTIVITY == 3
        trustFactor == trustWeight
        politicalDistance == Abs(node.political_leaning - m.political_bias)
        politicalAlignment == 10 - politicalDistance
        criticalThinkingPenalty ==
            IF m.factual_accuracy < 2
            THEN node.critical_thinking * (4 - m.factual_accuracy)
            ELSE 0
        alignmentScore == politicalAlignment * (8 - criticalThinkingPenalty)
        viralityBoost ==
            4 + m.virality_factor * node.emotional_susceptibility
        probability ==
            BASE_RECEPTIVITY * trustFactor * alignmentScore * viralityBoost
    IN  clamp(probability * 2000, Lit005, Lit095)

----------------------------------------------------------------------------
(* strategy-comparison.ts: estimateSpread.                                 *)
(*                                                                         *)
(* A JavaScript Set keeps insertion order: seedSet and the queue built     *)
(* from it are sequences without repetition.  Math.random() is the oracle  *)
(* draws: draws[<<u, v>>] is the value drawn when the cascade tries the    *)
(* edge u -> v, the same in every run and every call (the estimator is a   *)
(* deterministic function of the seed set).  A run carries, beside its     *)
(* local infected set and queue, the set of nodes whose state field it     *)
(* assigned (written): the source has no such assignment.  Two history     *)
(* fields record what the loop did: dequeued, the ids queue.shift()        *)
(* returned, in order, and via, one entry per infected.add with the node   *)
(* being processed, the neighbour added and the infected set before it.    *)

SetAdd(set, x) == IF x \in Range(set) THEN set ELSE Append(set, x)

\* Object.entries(currentNode.trust_network): the neighbour ids, here in
\* ascending order (the set a run infects does not depend on the order).
RECURSIVE SeqOfSet(_)
SeqOfSet(S) ==
    IF S = {} THEN <<>>
    ELSE LET x == CHOOSE y \in S : \A z \in S : y <= z
         IN  <<x>> \o SeqOfSet(S \ {x})

TrustEntries(nodeId) == SeqOfSet(DOMAIN trust[nodeId])

\* An activation that also writes the node's state field.
ActivateWritingState(run, neighborId) ==
    [run EXCEPT !.infected = @ \cup {neighborId},
                !.queue = Append(@, neighborId),
                !.written = @ \cup {neighborId}]

\* Lines 377-378: new Set(seedSet), Array.from(seedSet).
NewRunWithoutSeeds(seedSet) ==
    [infected |-> {}, queue |-> seedSet, written |-> {},
     dequeued |-> <<>>, via |-> {}]

NewRun(seedSet) ==
    [infected |-> Range(seedSet), queue |-> seedSet, written |-> {},
     dequeued |-> <<>>, via |-> {}]

\* An activation that pushes the neighbour twice.
ActivateEnqueuingTwice(run, neighborId) ==
    [run EXCEPT !.infected = @ \cup {neighborId},
                !.queue = Append(Append(@, neighborId), neighborId)]

\* Lines 401-402: infected.add(neighborId); queue.push(neighborId).
Activate(run, neighborId) ==
    [run EXCEPT !.infected = @ \cup {neighborId},
                !.queue = Append(@, neighborId)]

\* Lines 386-404: the for loop over the entries of currentNode.
RECURSIVE TryNeighbors(_, _, _)
TryNeighbors(entries, currentId, run) ==
    IF entries = <<>> THEN run
    ELSE LET neighborId == Head(entries)
             acceptanceProb ==
                calculateAcceptanceProbability(attrs[neighborId], meme,
                    attrs[currentId], trust[currentId][neighborId])
             next ==
                IF neighborId \in run.infected THEN run
                ELSE IF neighborId \notin Range(nodes) THEN run
                ELSE IF draws[<<currentId, neighborId>>] < acceptanceProb
                     THEN [Activate(run, neighborId) EXCEPT
                              !.via = @ \cup {[from |-> currentId,
                                               to |-> neighborId,
                                               before |-> run.infected]}]
                     ELSE run
         IN  TryNeighbors(Tail(entries), currentId, next)

\* Lines 380-405: the while loop over the queue.
RECURSIVE Cascade(_)
Cascade(run) ==
    IF run.queue = <<>> THEN run
    ELSE LET currentId == Head(run.queue)
             rest == [run EXCEPT !.queue = Tail(@),
                                 !.dequeued = Append(@, currentId)]
         IN  IF currentId \notin Range(nodes) THEN Cascade(rest)
             ELSE Cascade(TryNeighbors(TrustEntries(currentId), currentId,
                                       rest))

\* Lines 376-408: the simulation loop; acc is [totalSpread, written].
RECURSIVE Simulate(_, _, _)
Simulate(sim, seedSet, acc) ==
    IF sim = 0 THEN acc
    ELSE LET run == Cascade(NewRun(seedSet))
         IN  Simulate(sim - 1, seedSet,
                      [totalSpread |->
                          acc.totalSpread + Cardinality(run.infected),
                       written |-> acc.written \cup run.written])

\* The value returned, totalSpread / simulations (every run of one call
\* infects the same set, so the division is exact), and the nodes whose
\* state field the call assigned.
estimateSpread(seedSet, sims) ==
    LET acc == Simulate(sims, seedSet, [totalSpread |-> 0, written |-> {}])
    IN  [value |-> acc.totalSpread \div sims, written |-> acc.written]

\* calculateMarginalGain: two calls of estimateSpread.
calculateMarginalGain(seedSet, nodeId, sims) ==
    LET without == estimateSpread(seedSet, sims)
        with == estimateSpread(SetAdd(seedSet, nodeId), sims)
    IN  [gain |-> with.value - without.value,
         written |-> without.written \cup with.written]

\* The state fields of the graph once the nodes of `written` were
\* assigned by a cascade.
StatesAfter(written) ==
    [n \in DOMAIN nodeState |->
        IF n \in written THEN "infected" ELSE nodeState[n]]

----------------------------------------------------------------------------
(* strategy-comparison.ts: celfSelection.                                  *)

\* prevBest: null, lastSeed: null, curBest: null
Null == 0

\* A sort that leaves the queue in the order it has.
SortByGainSkipped(Q) == Q

\* Q.sort((a, b) => b.mg1 - a.mg1): a stable sort, highest mg1 first.
RECURSIVE SortByGain(_)
SortByGain(Q) ==
    IF Q = <<>> THEN <<>>
    ELSE LET front == SortByGain(SubSeq(Q, 1, Len(Q) - 1))
             last == Q[Len(Q)]
             k == Cardinality({i \in 1..Len(front) :
                                 front[i].mg1 >= last.mg1})
         IN  SubSeq(front, 1, k) \o <<last>>
                \o SubSeq(front, k + 1, Len(front))

\* Lines 450-461: the initialisation loop over network.nodes; acc is
\* [Q, written, calls].
RECURSIVE CelfInitLoop(_, _)
CelfInitLoop(rest, acc) ==
    IF rest = <<>> THEN acc
    ELSE LET node == Head(rest)
             mg == calculateMarginalGain(<<>>, node, simulations)
         IN  IF nodeState[node] = "susceptible"
             THEN CelfInitLoop(Tail(rest),
                    [Q |-> Append(acc.Q,
                              [nodeId |-> node, mg1 |-> mg.gain,
                               prevBest |-> Null, mg2 |-> 0, flag |-> 0]),
                     written |-> acc.written \cup mg.written,
                     calls |-> acc.calls + 2])
             ELSE CelfInitLoop(Tail(rest), acc)

\* Lines 442-464.
CelfInit ==
    /\ service = "celf"
    /\ celf.pc = "call"
    /\ LET acc == CelfInitLoop(nodes, [Q |-> <<>>, written |-> {},
                                       calls |-> 0])
       IN  /\ celf' = [pc |-> "loop", seeds |-> <<>>, seedSet |-> <<>>,
                       Q |-> SortByGain(acc.Q), calls |-> acc.calls]
           /\ nodeState' = StatesAfter(acc.written)
    /\ UNCHANGED <<service, gameVars, genVars,
                   nodes, attrs, trust, meme, costVars, astarArgs,
                   astarVars, celfArgs, celfpp>>

\* A loop test that lets one more round through.
CelfContinuesInclusive(c) == Len(c.seeds) <= budget /\ c.Q # <<>>

\* A loop test that gives up one seed early.
CelfContinuesStoppingEarly(c) == Len(c.seeds) + 1 < budget /\ c.Q # <<>>

\* seeds.length < budget && Q.length > 0
CelfContinues(c) == Len(c.seeds) < budget /\ c.Q # <<>>

\* Lines 474-481: the top's gain is current; it is picked.
CelfAccept ==
    /\ service = "celf"
    /\ celf.pc = "loop"
    /\ CelfContinues(celf)
    /\ LET u == celf.Q[1]
       IN  /\ u.flag = Len(celf.seeds)
           /\ celf' = [celf EXCEPT !.seeds = Append(@, u.nodeId),
                                   !.seedSet = SetAdd(@, u.nodeId),
                                   !.Q = Tail(@)]
    /\ UNCHANGED <<service, gameVars, genVars,
                   netVars, costVars, astarArgs, astarVars,
                   celfArgs, celfpp>>

\* Lines 483-489: the top's gain is recomputed, and Q sorted again.
CelfRecompute ==
    /\ service = "celf"
    /\ celf.pc = "loop"
    /\ CelfContinues(celf)
    /\ LET u == celf.Q[1]
           mg == calculateMarginalGain(celf.seedSet, u.nodeId, simulations)
       IN  /\ u.flag # Len(celf.seeds)
           /\ celf' = [celf EXCEPT
                         !.Q = SortByGain([@ EXCEPT ![1] =
                                  [u EXCEPT !.mg1 = mg.gain,
                                            !.flag = Len(celf.seeds)]]),
                         !.calls = @ + 2]
           /\ nodeState' = StatesAfter(mg.written)
    /\ UNCHANGED <<service, gameVars, genVars,
                   nodes, attrs, trust, meme, costVars, astarArgs,
                   astarVars, celfArgs, celfpp>>

\* Line 495: return seeds.
CelfReturn ==
    /\ service = "celf"
    /\ celf.pc = "loop"
    /\ ~CelfContinues(celf)
    /\ celf' = [celf EXCEPT !.pc = "returned"]
    /\ UNCHANGED <<service, gameVars, genVars,
                   netVars, costVars, astarArgs, astarVars,
                   celfArgs, celfpp>>

----------------------------------------------------------------------------
(* strategy-comparison.ts: celfPlusPlusSelection.  The caller runs it on   *)
(* the same graph, content, budget and draws once celfSelection returned.  *)

\* Q.find(n => n.nodeId === id); Null when there is none.
QFind(Q, id) ==
    IF \E i \in 1..Len(Q) : Q[i].nodeId = id
    THEN Q[CHOOSE i \in 1..Len(Q) : Q[i].nodeId = id]
    ELSE [nodeId |-> Null]

\* Lines 517-541: the initialisation loop; acc is [Q, written, calls,
\* curBest].
RECURSIVE CppInitLoop(_, _)
CppInitLoop(rest, acc) ==
    IF rest = <<>> THEN acc
    ELSE LET node == Head(rest)
             g1 == calculateMarginalGain(<<>>, node, simulations)
             g2 == IF acc.curBest # Null
                   THEN calculateMarginalGain(<<acc.curBest>>, node,
                                              simulations)
                   ELSE [gain |-> 0, written |-> {}]
             better ==
                \/ acc.curBest = Null
                \/ g1.gain > QFind(acc.Q, acc.curBest).mg1
         IN  IF nodeState[node] = "susceptible"
             THEN CppInitLoop(Tail(rest),
                    [Q |-> Append(acc.Q,
                              [nodeId |-> node, mg1 |-> g1.gain,
                               prevBest |-> acc.curBest, mg2 |-> g2.gain,
                               flag |-> 0]),
                     written |-> acc.written \cup g1.written
                                    \cup g2.written,
                     calls |-> acc.calls
                               + (IF acc.curBest # Null THEN 4 ELSE 2),
                     curBest |-> IF better THEN node ELSE acc.curBest])
             ELSE CppInitLoop(Tail(rest), acc)

\* Lines 508-543.
CppInit ==
    /\ service = "celf"
    /\ celf.pc = "returned"
    /\ celfpp.pc = "call"
    /\ LET acc == CppInitLoop(nodes, [Q |-> <<>>, written |-> {},
                                      calls |-> 0, curBest |-> Null])
       IN  /\ celfpp' = [pc |-> "loop", seeds |-> <<>>, seedSet |-> <<>>,
                         lastSeed |-> Null, curBest |-> acc.curBest,
                         Q |-> SortByGain(acc.Q), calls |-> acc.calls]
           /\ nodeState' = StatesAfter(acc.written)
    /\ UNCHANGED <<service, gameVars, genVars,
                   nodes, attrs, trust, meme, costVars, astarArgs,
                   astarVars, celfArgs, celf>>

\* Lines 553-560.
CppAccept ==
    /\ service = "celf"
    /\ celfpp.pc = "loop"
    /\ CelfContinues(celfpp)
    /\ LET u == celfpp.Q[1]
       IN  /\ u.flag = Len(celfpp.seeds)
           /\ celfpp' = [celfpp EXCEPT !.seeds = Append(@, u.nodeId),
                                       !.seedSet = SetAdd(@, u.nodeId),
                                       !.lastSeed = u.nodeId,
                                       !.Q = Tail(@)]
    /\ UNCHANGED <<service, gameVars, genVars,
                   netVars, costVars, astarArgs, astarVars,
                   celfArgs, celf>>

\* Lines 579-587: the flag, curBest, the sort, for the updated top u.
CppAfterUpdate(c, u) ==
    LET stamped == [u EXCEPT !.flag = Len(c.seeds)]
        Q1 == [c.Q EXCEPT ![1] = stamped]
        curBestNode == IF c.curBest # Null THEN QFind(Q1, c.curBest)
                       ELSE [nodeId |-> Null]
        replace ==
            \/ c.curBest = Null
            \/ curBestNode.nodeId = Null
            \/ stamped.mg1 > curBestNode.mg1
    IN  [c EXCEPT !.curBest = IF replace THEN u.nodeId ELSE @,
                  !.Q = SortByGain(Q1)]

\* Lines 563-565: prevBest is the last seed; mg2 becomes mg1.
CppReuse ==
    /\ service = "celf"
    /\ celfpp.pc = "loop"
    /\ CelfContinues(celfpp)
    /\ LET u == celfpp.Q[1]
       IN  /\ u.flag # Len(celfpp.seeds)
           /\ u.prevBest = celfpp.lastSeed
           /\ celfpp' = CppAfterUpdate(celfpp, [u EXCEPT !.mg1 = u.mg2])
    /\ UNCHANGED <<service, gameVars, genVars,
                   netVars, costVars, astarArgs, astarVars,
                   celfArgs, celf>>

\* Lines 566-577: mg1 and mg2 are recomputed.
CppRecompute ==
    /\ service = "celf"
    /\ celfpp.pc = "loop"
    /\ CelfContinues(celfpp)
    /\ LET u == celfpp.Q[1]
           g1 == calculateMarginalGain(celfpp.seedSet, u.nodeId,
                                       simulations)
           g2 == IF celfpp.curBest # Null
                 THEN calculateMarginalGain(
                          SetAdd(celfpp.seedSet, celfpp.curBest), u.nodeId,
                          simulations)
                 ELSE [gain |-> u.mg2, written |-> {}]
       IN  /\ u.flag # Len(celfpp.seeds)
           /\ u.prevBest # celfpp.lastSeed
           /\ celfpp' =
                [CppAfterUpdate(celfpp,
                    [u EXCEPT !.mg1 = g1.gain, !.mg2 = g2.gain,
                              !.prevBest = celfpp.curBest])
                 EXCEPT !.calls = @ + (IF celfpp.curBest # Null
                                       THEN 4 ELSE 2)]
           /\ nodeState' = StatesAfter(g1.written \cup g2.written)
    /\ UNCHANGED <<service, gameVars, genVars,
                   nodes, attrs, trust, meme, costVars, astarArgs,
                   astarVars, celfArgs, celf>>

\* Line 593: return seeds.
CppReturn ==
    /\ service = "celf"
    /\ celfpp.pc = "loop"
    /\ ~CelfContinues(celfpp)
    /\ celfpp' = [celfpp EXCEPT !.pc = "returned"]
    /\ UNCHANGED <<service, gameVars, genVars,
                   netVars, costVars, astarArgs, astarVars,
                   celfArgs, celf>>

NextCelf ==
    \/ CelfInit
    \/ CelfAccept
    \/ CelfRecompute
    \/ CelfReturn
    \/ CppInit
    \/ CppAccept
    \/ CppReuse
    \/ CppRecompute
    \/ CppReturn

----------------------------------------------------------------------------
(* The cost functions called alone, on a grid of the declared ranges.      *)

IdentityClasses == {"suburban_family", "rural_traditional"}

\* Grid of a [0,1] attribute stored in tenths, of political values in
\* [-1,1] stored in tenths, of factual_accuracy (quarters), of trust.
GridUnit == {0, 5, 10}
GridPolitical == {-10, 0, 10}
GridAccuracy == {0, 1, 2, 4}
GridTrust == {1, 5, 10}

GridNodes ==
    [identity_class : IdentityClasses,
     political_leaning : GridPolitical,
     critical_thinking : {0, 2},
     emotional_susceptibility : {0, 2},
     education_level : {0, 10},
     social_activity : GridUnit]

GridSources ==
    [identity_class : {"suburban_family"},
     political_leaning : GridPolitical,
     critical_thinking : {1},
     emotional_susceptibility : {1},
     education_level : {5},
     social_activity : {5}]

GridMemes ==
    [political_bias : GridPolitical,
     factual_accuracy : GridAccuracy,
     complexity : {0, 10},
     virality_factor : {0, 2},
     source_credibility : {0, 2}]

NoNet ==
    /\ nodes = <<>>
    /\ attrs = <<>>
    /\ trust = <<>>
    /\ nodeState = <<>>

NoCelf ==
    /\ budget = 0 /\ simulations = 0 /\ draws = <<>>
    /\ celf = <<>> /\ celfpp = <<>>

NoGame ==
    /\ gameState = <<>> /\ gameConfig = <<>>
    /\ attackerStrategy = "none" /\ defenderStrategy = "none"
    /\ lastCall = <<>> /\ callCount = 0

NoGen == genConfig = <<>> /\ network = <<>> /\ gen = <<>>

NoAStar ==
    /\ startNodeId = 0 /\ targetNodeId = 0 /\ mode = "none"
    /\ pc = "idle"
    /\ openSet = <<>> /\ gScores = <<>> /\ fScores = <<>>
    /\ closedSet = {} /\ frames = <<>>
    /\ result = <<>>

InitCost ==
    /\ service = "cost"
    /\ NoGen
    /\ NoGame
    /\ NoNet
    /\ NoAStar
    /\ NoCelf
    /\ meme \in GridMemes
    /\ costIn \in [sourceNode : GridSources, targetNode : GridNodes,
                   trustWeight : GridTrust]
    /\ costOut = [done |-> FALSE, social |-> 0, meme |-> 0, accept |-> 0]

\* One call of each cost function, and of the acceptance probability, on
\* the chosen edge.
CostEval ==
    /\ service = "cost"
    /\ ~costOut.done
    /\ costOut' =
        [done |-> TRUE,
         social |-> calculateSocialTrustCost(costIn.sourceNode,
                        costIn.targetNode, costIn.trustWeight),
         meme |-> calculateMemeTrustCost(costIn.targetNode, meme,
                        costIn.sourceNode, costIn.trustWeight),
         accept |-> calculateAcceptanceProbability(costIn.targetNode, meme,
                        costIn.sourceNode, costIn.trustWeight)]
    /\ UNCHANGED <<service, gameVars, genVars,
                   netVars, costIn, astarArgs, astarVars, celfArgs,
                   celfVars>>

NextCost == CostEval

SpecCost == InitCost /\ [][NextCost]_vars

----------------------------------------------------------------------------
(* The graphs and calls astarInfluencePath is run on.                      *)

\* Largest number of nodes of an enumerated graph.
MaxNodes == 4

\* Node attributes inside the ranges IDENTITY_PROFILES gives the two
\* classes (part_001 lines 61-74).
Profiles ==
    {[identity_class |-> "suburban_family", political_leaning |-> -1,
      critical_thinking |-> 1, emotional_susceptibility |-> 1,
      education_level |-> 7, social_activity |-> 6],
     [identity_class |-> "rural_traditional", political_leaning |-> 8,
      critical_thinking |-> 1, emotional_susceptibility |-> 1,
      education_level |-> 3, social_activity |-> 3]}

\* Trust weights calculateTrustWeight can return (it clamps to
\* [0.1, 0.95]); 0 stands for "no edge".
Weights == {5, 9}

\* The 'neutral' preset of MEME_PRESETS (part_002 lines 88-95).
NeutralMeme ==
    [political_bias |-> 0, factual_accuracy |-> 2, complexity |-> 5,
     virality_factor |-> 1, source_credibility |-> 1]

\* The neutral preset and a low-accuracy partisan item.
Memes ==
    {NeutralMeme,
     [political_bias |-> 8, factual_accuracy |-> 1, complexity |-> 3,
      virality_factor |-> 2, source_credibility |-> 1]}

Pairs(n) == {p \in SUBSET (1..n) : Cardinality(p) = 2}

\* The symmetric trust maps of the undirected weighted graph w.
TrustOf(n, w) ==
    [u \in 1..n |->
        [v \in {x \in 1..n : x # u /\ w[{u, x}] # 0} |-> w[{u, v}]]]

\* Every graph on MaxNodes nodes with weights in Weights and attributes in
\* Profiles, as generateNetwork leaves it: every node susceptible.
InitGraph(n) ==
    /\ nodes = [i \in 1..n |-> i]
    /\ attrs \in [1..n -> Profiles]
    /\ \E w \in [Pairs(n) -> Weights \cup {0}] : trust = TrustOf(n, w)
    /\ nodeState = [i \in 1..n |-> "susceptible"]

\* The concrete scenario: a ring of 5 nodes (ids 1..5 for 0..4), uniform
\* trust weight 0.5, identical attributes.
RingNodes == 1..5

RingNext(i) == (i % Cardinality(RingNodes)) + 1

RingTrust ==
    [u \in RingNodes |->
        [v \in {x \in RingNodes : x = RingNext(u) \/ u = RingNext(x)} |-> 5]]

InitRing ==
    /\ nodes = [i \in RingNodes |-> i]
    /\ \E a \in GridNodes : attrs = [i \in RingNodes |-> a]
    /\ trust = RingTrust
    /\ nodeState = [i \in RingNodes |-> "susceptible"]

NoCost ==
    /\ costIn = <<>>
    /\ costOut = [done |-> FALSE, social |-> 0, meme |-> 0, accept |-> 0]

\* A call astarInfluencePath(network, startNodeId, targetNodeId, meme,
\* mode): from node 1 to every node of every graph on MaxNodes nodes; with
\* an id of no node (3) on every graph on two nodes; on the ring.
InitAStar ==
    /\ service = "astar"
    /\ NoGen
    /\ NoGame
    /\ NoCost
    /\ NoCelf
    /\ \/ /\ InitGraph(MaxNodes)
          /\ startNodeId = 1
          /\ targetNodeId \in 1..MaxNodes
       \/ /\ InitGraph(2)
          /\ \E call \in {<<1, 3>>, <<3, 1>>, <<3, 3>>} :
                startNodeId = call[1] /\ targetNodeId = call[2]
       \/ /\ InitRing
          /\ startNodeId = 1
          /\ targetNodeId = 3
    /\ \/ mode = "social_trust" /\ meme = NeutralMeme
       \/ mode = "meme_trust" /\ meme \in Memes
    /\ pc = "call"
    /\ openSet = <<>> /\ gScores = <<>> /\ fScores = <<>>
    /\ closedSet = {} /\ frames = <<>>
    /\ result = <<>>

SpecAStar == InitAStar /\ [][NextAStar]_vars

----------------------------------------------------------------------------
(* The graphs and calls the selectors are run on.                          *)

\* Largest budget of a selector call.
MaxBudget == 3

\* Largest number of low draws in one scenario.
MaxAccepted == 1

\* A low draw, 0.1: below the acceptance probability between two
\* suburban_family nodes (0.16875), above the one between two
\* rural_traditional nodes (clamped to 0.05).  A high draw, 0.95, is
\* below no acceptance probability.
DrawLow == Scale \div 10
DrawHigh == Lit095

DirectedEdges ==
    {e \in Range(nodes) \X Range(nodes) : e[2] \in DOMAIN trust[e[1]]}

\* Graphs on MaxNodes nodes with trust weight 0.5, one profile; the
\* first node, or the first and the last, may be infected already.
InitCelfGraph ==
    /\ nodes = [i \in 1..MaxNodes |-> i]
    /\ \E a \in Profiles : attrs = [i \in 1..MaxNodes |-> a]
    /\ \E w \in [Pairs(MaxNodes) -> {0, 5}] : trust = TrustOf(MaxNodes, w)
    /\ \E sick \in {{}, {1}, {1, MaxNodes}}, immune \in {{}, {MaxNodes}} :
            /\ immune = {} \/ sick = {1}
            /\ nodeState = [i \in 1..MaxNodes |->
                              IF i \in sick THEN "infected"
                              ELSE IF i \in immune THEN "resistant"
                              ELSE "susceptible"]

InitCelf ==
    /\ service = "celf"
    /\ NoGen
    /\ NoGame
    /\ NoCost
    /\ NoAStar
    /\ InitCelfGraph
    /\ meme = NeutralMeme
    /\ budget \in 0..MaxBudget
    /\ simulations = 1
    /\ \E live \in SUBSET DirectedEdges :
        /\ Cardinality(live) <= MaxAccepted
        /\ draws = [e \in DirectedEdges |->
                      IF e \in live THEN DrawLow ELSE DrawHigh]
    /\ celf = [pc |-> "call"]
    /\ celfpp = [pc |-> "call"]

SpecCelf == InitCelf /\ [][NextCelf]_vars

----------------------------------------------------------------------------
(* game-engine.ts.  A GameState is a record.  Its infectedNodes is a       *)
(* JavaScript Set, which keeps insertion order (the strategies read        *)
(* Array.from(state.infectedNodes)[0]): a sequence without repetition.     *)
(* The node objects belong to the network every state points to: their    *)
(* state fields are nodeState, passed as ns and returned with the state.   *)
(* const newState = { ...state } copies the fields of state; the Sets and  *)
(* the array it points to are those of state.  An activeMemes entry keeps  *)
(* its generation: the attributes of a meme reach the engine only through  *)
(* acceptanceProb.  Math.random() < p has both outcomes for every p the    *)
(* engine forms (acceptanceProb is clamped to [0.05, 0.95], reversalProb   *)
(* is 0.6 + critical_thinking * 0.3): the outcome is the argument success. *)

MoveTypes == {"infect", "factcheck", "inoculate", "mutate_meme"}

\* Lines 15-28.  The node objects of network are not touched.
initializeGame(initialMeme, config) ==
    [activeMemes |-> <<initialMeme>>,
     infectedNodes |-> <<>>,
     resistantNodes |-> {},
     currentTurn |-> "attacker",
     turnNumber |-> 1,
     attackerBudget |-> config.attackerBudget,
     defenderBudget |-> config.defenderBudget,
     gameOver |-> FALSE,
     winner |-> "undefined"]

\* Lines 34-68.
mutateMeme(m, targetNode) == [generation |-> m.generation + 1]

\* A check that finds an infected neighbour for every target.
hasInfectedNeighborAssumed(state, nodeId) == TRUE

\* Lines 90-92.
hasInfectedNeighbor(state, nodeId) ==
    \E i \in 1..Len(state.infectedNodes) :
        state.infectedNodes[i] \in DOMAIN trust[nodeId]

\* A budget update that spends nothing.
DecrementForgotten(n) == n

\* attackerBudget-- and defenderBudget--.
Decrement(n) == n - 1

\* Set.delete
SetDelete(set, x) == SelectSeq(set, LAMBDA y : y # x)

\* How the GameState object passed to a call reads after the call.  Line 78
\* (and 188), const newState = { ...state }, copies the fields: a number
\* assigned through newState leaves state's alone, while the Sets and the
\* array are the objects newState points to as well.  An early return
\* hands back state itself.
InputAfterCall(state, newState) ==
    [state EXCEPT !.activeMemes = newState.activeMemes,
                  !.infectedNodes = newState.infectedNodes,
                  !.resistantNodes = newState.resistantNodes]

\* Lines 73-177.  outcome names the branch taken.
executeAttackerMove(state, ns, move, success) ==
    IF move.targetNodeId \notin Range(nodes)
    THEN [newState |-> state, nodeState |-> ns, outcome |-> "no_target"]
    ELSE IF move.type = "infect"
    THEN IF ~hasInfectedNeighbor(state, move.targetNodeId)
            /\ Len(state.infectedNodes) > 0
         THEN [newState |-> state, nodeState |-> ns,
               outcome |-> "rejected"]
         ELSE IF success
         THEN [newState |->
                   [state EXCEPT
                       !.infectedNodes = SetAdd(@, move.targetNodeId),
                       !.attackerBudget = Decrement(@)],
               nodeState |-> [ns EXCEPT ![move.targetNodeId] = "infected"],
               outcome |-> "infected"]
         ELSE [newState |-> [state EXCEPT !.attackerBudget = Decrement(@)],
               nodeState |-> ns,
               outcome |-> "failed"]
    ELSE IF move.type = "mutate_meme"
    THEN [newState |->
              [state EXCEPT
                  !.activeMemes =
                      Append(@, mutateMeme(@[1],
                                           attrs[move.targetNodeId])),
                  !.attackerBudget = Decrement(@)],
          nodeState |-> ns,
          outcome |-> "mutated"]
    ELSE [newState |-> state, nodeState |-> ns, outcome |-> "ignored"]

\* Lines 182-269.
executeDefenderMove(state, ns, move, success) ==
    IF move.targetNodeId \notin Range(nodes)
    THEN [newState |-> state, nodeState |-> ns, outcome |-> "no_target"]
    ELSE IF move.type = "factcheck"
    THEN LET wasInfected == move.targetNodeId \in Range(state.infectedNodes)
         IN  IF wasInfected /\ success
             THEN [newState |->
                       [state EXCEPT
                           !.infectedNodes = SetDelete(@, move.targetNodeId),
                           !.resistantNodes = @ \cup {move.targetNodeId},
                           !.defenderBudget = Decrement(@)],
                   nodeState |->
                       [ns EXCEPT ![move.targetNodeId] = "resistant"],
                   outcome |-> "factchecked"]
             ELSE [newState |->
                       [state EXCEPT !.defenderBudget = Decrement(@)],
                   nodeState |-> ns,
                   outcome |-> IF wasInfected THEN "failed"
                               ELSE "not_infected"]
    ELSE IF move.type = "inoculate"
    THEN IF ns[move.targetNodeId] = "susceptible"
         THEN [newState |->
                   [state EXCEPT
                       !.resistantNodes = @ \cup {move.targetNodeId},
                       !.defenderBudget = Decrement(@)],
               nodeState |->
                   [ns EXCEPT ![move.targetNodeId] = "resistant"],
               outcome |-> "inoculated"]
         ELSE [newState |-> [state EXCEPT !.defenderBudget = Decrement(@)],
               nodeState |-> ns,
               outcome |-> "not_susceptible"]
    ELSE [newState |-> state, nodeState |-> ns, outcome |-> "ignored"]

\* A switch that counts every turn, the defender's too.
switchTurnCountingEach(state) ==
    [state EXCEPT
        !.currentTurn = IF @ = "attacker" THEN "defender" ELSE "attacker",
        !.turnNumber = @ + 1]

\* Lines 274-281.
switchTurn(state) ==
    LET newTurn ==
            IF state.currentTurn = "attacker" THEN "defender"
            ELSE "attacker"
    IN  [state EXCEPT
            !.currentTurn = newTurn,
            !.turnNumber = IF newTurn = "attacker" THEN @ + 1 ELSE @]

\* infectionRate >= config.winThreshold, the threshold in tenths.
RateReaches(state, config) ==
    10 * Len(state.infectedNodes) >= config.winThreshold * Len(nodes)

\* A win check that ends the game on turn maxTurns already.
checkWinConditionAtTurnLimit(state, config) ==
    IF RateReaches(state, config)
    THEN [gameOver |-> TRUE, winner |-> "attacker"]
    ELSE IF state.turnNumber >= config.maxTurns
    THEN [gameOver |-> TRUE, winner |-> "defender"]
    ELSE IF state.attackerBudget <= 0
    THEN [gameOver |-> TRUE, winner |-> "defender"]
    ELSE [gameOver |-> FALSE, winner |-> "undefined"]

\* Lines 286-308.
checkWinCondition(state, config) ==
    IF RateReaches(state, config)
    THEN [gameOver |-> TRUE, winner |-> "attacker"]
    ELSE IF state.turnNumber > config.maxTurns
    THEN [gameOver |-> TRUE, winner |-> "defender"]
    ELSE IF state.attackerBudget <= 0 /\ ~RateReaches(state, config)
    THEN [gameOver |-> TRUE, winner |-> "defender"]
    ELSE [gameOver |-> FALSE, winner |-> "undefined"]

\* Line 342: targetNodeId: 'any', the id of no node.
AnyTarget == 0

\* moves.push({ type, targetNodeId: node.id }) for the nodes of ids, in
\* array order.
MovesOn(type, ids) ==
    [i \in 1..Len(ids) |-> [type |-> type, targetNodeId |-> ids[i]]]

\* Lines 313-358.
getPossibleMoves(state, ns) ==
    IF state.currentTurn = "attacker" /\ state.attackerBudget > 0
    THEN (IF Len(state.infectedNodes) = 0
          THEN MovesOn("infect",
                       SelectSeq(nodes, LAMBDA n : ns[n] = "susceptible"))
          ELSE MovesOn("infect",
                       SelectSeq(nodes,
                           LAMBDA n : /\ ns[n] = "susceptible"
                                      /\ hasInfectedNeighbor(state, n))))
         \o <<[type |-> "mutate_meme", targetNodeId |-> AnyTarget]>>
    ELSE IF state.currentTurn = "defender" /\ state.defenderBudget > 0
    THEN MovesOn("factcheck",
                 SelectSeq(nodes, LAMBDA n : n \in Range(state.infectedNodes)))
         \o MovesOn("inoculate",
                    SelectSeq(nodes, LAMBDA n : ns[n] = "susceptible"))
    ELSE <<>>

----------------------------------------------------------------------------
(* The engine called directly: any sequence of executeAttackerMove and     *)
(* executeDefenderMove calls, each on the state the previous one returned. *)

\* Number of nodes of the networks a game is played on.
GameNodes == 3

\* Largest number of engine calls in one sequence.
MaxCalls == 3

\* The GameConfig of CompetitiveMode (part_005 lines 21-27); winThreshold
\* in tenths.
CompetitiveConfig ==
    [attackerBudget |-> 10, defenderBudget |-> 10, maxTurns |-> 20,
     winThreshold |-> 6]

\* The same rules with budgets and a turn limit that a game on GameNodes
\* nodes can use up.
ShortConfig ==
    [attackerBudget |-> 2, defenderBudget |-> 2, maxTurns |-> 4,
     winThreshold |-> 6]

\* The meme a game starts with.
InitialMeme == [generation |-> 0]

\* Every move a caller can pass: the four types, on each node and on an id
\* of no node.
Moves == [type : MoveTypes, targetNodeId : 1..(GameNodes + 1)]

\* A network as generateNetwork leaves it: every node susceptible.
InitGameGraph ==
    /\ nodes = [i \in 1..GameNodes |-> i]
    /\ \E w \in [Pairs(GameNodes) -> {0, 5}] : trust = TrustOf(GameNodes, w)
    /\ nodeState = [i \in 1..GameNodes |-> "susceptible"]
    /\ meme = NeutralMeme

InitEngine ==
    /\ service = "engine"
    /\ NoGen
    /\ NoCost
    /\ NoAStar
    /\ NoCelf
    /\ InitGameGraph
    /\ \E a \in Profiles : attrs = [i \in 1..GameNodes |-> a]
    /\ gameConfig = CompetitiveConfig
    /\ gameState = initializeGame(InitialMeme, gameConfig)
    /\ attackerStrategy = "none" /\ defenderStrategy = "none"
    /\ lastCall = [fn |-> "initializeGame"]
    /\ callCount = 0

CallAttackerMove ==
    /\ service = "engine"
    /\ callCount < MaxCalls
    /\ \E move \in Moves, success \in BOOLEAN :
        LET r == executeAttackerMove(gameState, nodeState, move, success)
        IN  /\ gameState' = r.newState
            /\ nodeState' = r.nodeState
            /\ lastCall' = [fn |-> "executeAttackerMove", move |-> move,
                            outcome |-> r.outcome,
                            input |-> InputAfterCall(gameState, r.newState)]
    /\ callCount' = callCount + 1
    /\ UNCHANGED <<service, nodes, attrs, trust, meme, costVars, astarArgs,
                   astarVars, celfArgs, celfVars, genVars, gameConfig,
                   attackerStrategy, defenderStrategy>>

CallDefenderMove ==
    /\ service = "engine"
    /\ callCount < MaxCalls
    /\ \E move \in Moves, success \in BOOLEAN :
        LET r == executeDefenderMove(gameState, nodeState, move, success)
        IN  /\ gameState' = r.newState
            /\ nodeState' = r.nodeState
            /\ lastCall' = [fn |-> "executeDefenderMove", move |-> move,
                            outcome |-> r.outcome,
                            input |-> InputAfterCall(gameState, r.newState)]
    /\ callCount' = callCount + 1
    /\ UNCHANGED <<service, nodes, attrs, trust, meme, costVars, astarArgs,
                   astarVars, celfArgs, celfVars, genVars, gameConfig,
                   attackerStrategy, defenderStrategy>>

NextEngine == CallAttackerMove \/ CallDefenderMove

SpecEngine == InitEngine /\ [][NextEngine]_vars

----------------------------------------------------------------------------
(* ai-strategies.ts.  Each strategy filters network.nodes (array order),   *)
(* sorts the candidates by a score, highest first, and takes the head.     *)
(* Array.prototype.sort is stable: the head is the first candidate, in     *)
(* array order, that no candidate sorts before.  A strategy that returns   *)
(* null returns NoMove.  The AI attackers read the latest entry of         *)
(* activeMemes, which in a game they play is the initial meme.             *)

NoMove == [type |-> "none"]

\* candidates.sort(compare)[0]; before is the set of the pairs <<a, b>>
\* of nodes with compare(a, b) < 0.
SortedHead(candidates, before) ==
    LET I == 1..Len(candidates)
        i == CHOOSE k \in I :
                /\ \A j \in I : <<candidates[j], candidates[k]>> \notin before
                /\ \A j \in 1..(k - 1) :
                        <<candidates[k], candidates[j]>> \in before
    IN  candidates[i]

NodePairs == Range(nodes) \X Range(nodes)

\* Object.keys(node.trust_network).length
Degree(n) == Cardinality(DOMAIN trust[n])

ByDegree == {p \in NodePairs : Degree(p[1]) > Degree(p[2])}

\* The number of identity classes among the neighbours of n.
NeighborIdentities(n) ==
    Cardinality({attrs[x].identity_class : x \in DOMAIN trust[n]})

ByIdentities ==
    {p \in NodePairs : NeighborIdentities(p[1]) > NeighborIdentities(p[2])}

\* Array.from(state.infectedNodes).filter(id in n.trust_network)
InfectedNeighbors(state, n) ==
    SelectSeq(state.infectedNodes, LAMBDA id : id \in DOMAIN trust[n])

\* A filter that keeps every susceptible node, adjacent or not.
AttackerCandidatesAnywhere(state, ns) ==
    SelectSeq(nodes, LAMBDA n : ns[n] = "susceptible")

\* Lines 23-33, 54-60, 100-106: the filter of the three attackers.
AttackerCandidates(state, ns) ==
    SelectSeq(nodes,
        LAMBDA n : /\ ns[n] = "susceptible"
                   /\ \/ Len(state.infectedNodes) = 0
                      \/ InfectedNeighbors(state, n) # <<>>)

SusceptibleNodes(ns) == SelectSeq(nodes, LAMBDA n : ns[n] = "susceptible")

\* Lines 22-47.
attackerGreedyDegree(state, ns) ==
    LET susceptibleNodes == AttackerCandidates(state, ns)
    IN  IF susceptibleNodes = <<>> THEN NoMove
        ELSE [type |-> "infect",
              targetNodeId |-> SortedHead(susceptibleNodes, ByDegree)]

\* Lines 65-85: the acceptance score of a candidate.
AcceptanceScore(state, n) ==
    LET infectedNeighbors == InfectedNeighbors(state, n)
    IN  IF infectedNeighbors = <<>> /\ Len(state.infectedNodes) > 0 THEN 0
        ELSE IF infectedNeighbors # <<>>
        THEN calculateAcceptanceProbability(attrs[n], meme,
                 attrs[infectedNeighbors[1]], trust[n][infectedNeighbors[1]])
        ELSE calculateAcceptanceProbability(attrs[n], meme, attrs[n], 5)

\* Lines 52-94.
attackerHighSusceptibility(state, ns) ==
    LET susceptibleNodes == AttackerCandidates(state, ns)
        ByScore ==
            {p \in NodePairs :
                AcceptanceScore(state, p[1]) > AcceptanceScore(state, p[2])}
    IN  IF susceptibleNodes = <<>> THEN NoMove
        ELSE [type |-> "infect",
              targetNodeId |-> SortedHead(susceptibleNodes, ByScore)]

\* Lines 99-127.
attackerBridgeTargeting(state, ns) ==
    LET susceptibleNodes == AttackerCandidates(state, ns)
    IN  IF susceptibleNodes = <<>> THEN NoMove
        ELSE [type |-> "infect",
              targetNodeId |-> SortedHead(susceptibleNodes, ByIdentities)]

\* Lines 152-157: infectedNeighborCount / degree, as a fraction.
ThreatCount(state, n) ==
    Cardinality({x \in DOMAIN trust[n] : x \in Range(state.infectedNodes)})

ThreatDegree(n) == IF Degree(n) > 0 THEN Degree(n) ELSE 1

\* Lines 136-172.
defenderReactive(state, ns) ==
    LET susceptibleNodes == SusceptibleNodes(ns)
        ByThreat ==
            {p \in NodePairs :
                ThreatCount(state, p[1]) * ThreatDegree(p[2])
                    > ThreatCount(state, p[2]) * ThreatDegree(p[1])}
    IN  IF Len(state.infectedNodes) = 0
        THEN IF susceptibleNodes # <<>>
             THEN [type |-> "inoculate",
                   targetNodeId |-> SortedHead(susceptibleNodes, ByDegree)]
             ELSE NoMove
        ELSE IF susceptibleNodes # <<>>
                /\ ThreatCount(state,
                       SortedHead(susceptibleNodes, ByThreat)) > 0
        THEN [type |-> "inoculate",
              targetNodeId |-> SortedHead(susceptibleNodes, ByThreat)]
        ELSE [type |-> "factcheck", targetNodeId |-> state.infectedNodes[1]]

\* Lines 190-194, 219-223: the fall back of the other two defenders.
FactCheckFirst(state) ==
    IF Len(state.infectedNodes) > 0
    THEN [type |-> "factcheck", targetNodeId |-> state.infectedNodes[1]]
    ELSE NoMove

\* Lines 177-195.
defenderProactive(state, ns) ==
    LET susceptibleNodes == SusceptibleNodes(ns)
    IN  IF susceptibleNodes # <<>>
        THEN [type |-> "inoculate",
              targetNodeId |-> SortedHead(susceptibleNodes, ByDegree)]
        ELSE FactCheckFirst(state)

\* Lines 200-224.
defenderBridgeProtection(state, ns) ==
    LET susceptibleNodes == SusceptibleNodes(ns)
    IN  IF susceptibleNodes # <<>>
        THEN [type |-> "inoculate",
              targetNodeId |-> SortedHead(susceptibleNodes, ByIdentities)]
        ELSE FactCheckFirst(state)

AttackerStrategies ==
    {"greedy_degree", "high_susceptibility", "bridge_targeting"}

DefenderStrategies == {"reactive", "proactive", "bridge_protection"}

\* Lines 229-257.
getAIMove(state, ns, attacker, defender) ==
    IF state.currentTurn = "attacker"
    THEN CASE attacker = "greedy_degree" -> attackerGreedyDegree(state, ns)
           [] attacker = "high_susceptibility" ->
                    attackerHighSusceptibility(state, ns)
           [] attacker = "bridge_targeting" ->
                    attackerBridgeTargeting(state, ns)
           [] OTHER -> attackerGreedyDegree(state, ns)
    ELSE CASE defender = "reactive" -> defenderReactive(state, ns)
           [] defender = "proactive" -> defenderProactive(state, ns)
           [] defender = "bridge_protection" ->
                    defenderBridgeProtection(state, ns)
           [] OTHER -> defenderReactive(state, ns)

----------------------------------------------------------------------------
(* The CompetitiveMode component (part_005): executeTurn, run by the       *)
(* auto-play timer or the Step button, and resetGame.                      *)

\* Largest number of resetGame calls.
MaxResets == 1

\* Largest turnNumber a turn is started at (a game that is not over keeps
\* counting turns).
MaxTurnNumber == 22

InitGame ==
    /\ service = "game"
    /\ NoGen
    /\ NoCost
    /\ NoAStar
    /\ NoCelf
    /\ InitGameGraph
    /\ \E a \in Profiles, b \in Profiles :
            attrs = [i \in 1..GameNodes |-> IF i = 1 THEN a ELSE b]
    /\ gameConfig \in {CompetitiveConfig, ShortConfig}
    /\ gameState = initializeGame(InitialMeme, gameConfig)
    /\ attackerStrategy \in AttackerStrategies
    /\ defenderStrategy \in DefenderStrategies
    /\ lastCall = [fn |-> "initializeGame"]
    /\ callCount = 0

\* Lines 57-110.
ExecuteTurn ==
    /\ service = "game"
    /\ ~gameState.gameOver
    /\ gameState.turnNumber <= MaxTurnNumber
    /\ LET aiMove == getAIMove(gameState, nodeState, attackerStrategy,
                               defenderStrategy)
       IN  IF aiMove = NoMove
           THEN /\ gameState' = switchTurn(gameState)
                /\ nodeState' = nodeState
                /\ lastCall' = [fn |-> "executeTurn", move |-> NoMove,
                                outcome |-> "no_move"]
           ELSE \E success \in BOOLEAN :
                LET r == IF gameState.currentTurn = "attacker"
                         THEN executeAttackerMove(gameState, nodeState,
                                                  aiMove, success)
                         ELSE executeDefenderMove(gameState, nodeState,
                                                  aiMove, success)
                    winCheck == checkWinCondition(r.newState, gameConfig)
                    newState ==
                        IF winCheck.gameOver
                        THEN [r.newState EXCEPT
                                 !.gameOver = TRUE,
                                 !.winner = winCheck.winner]
                        ELSE r.newState
                IN  /\ gameState' = switchTurn(newState)
                    /\ nodeState' = r.nodeState
                    /\ lastCall' = [fn |-> "executeTurn", move |-> aiMove,
                                    outcome |-> r.outcome]
    /\ UNCHANGED <<service, nodes, attrs, trust, meme, costVars, astarArgs,
                   astarVars, celfArgs, celfVars, genVars, gameConfig,
                   attackerStrategy, defenderStrategy, callCount>>

\* Lines 112-117: initializeGame on the network the component was given.
ResetGame ==
    /\ service = "game"
    /\ callCount < MaxResets
    /\ gameState' = initializeGame(InitialMeme, gameConfig)
    /\ lastCall' = [fn |-> "initializeGame"]
    /\ callCount' = callCount + 1
    /\ UNCHANGED <<service, netVars, costVars, astarArgs, astarVars,
                   celfArgs, celfVars, genVars, gameConfig,
                   attackerStrategy, defenderStrategy>>

NextGame == ExecuteTurn \/ ResetGame

SpecGame == InitGame /\ [][NextGame]_vars

----------------------------------------------------------------------------
(* strategy-comparison.ts: runSingleGame, the benchmark's game loop, with  *)
(* one of the three heuristic attackers.  state is gameState; lastCall     *)
(* names the player of the iteration, the move its strategy returned and   *)
(* what the execute function called on it did.                             *)

InitBench ==
    /\ service = "bench"
    /\ NoGen
    /\ NoCost
    /\ NoAStar
    /\ NoCelf
    /\ InitGameGraph
    /\ \E a \in Profiles, b \in Profiles :
            attrs = [i \in 1..GameNodes |-> IF i = 1 THEN a ELSE b]
    /\ gameConfig \in {CompetitiveConfig, ShortConfig}
    /\ gameState = initializeGame(InitialMeme, gameConfig)
    /\ attackerStrategy \in AttackerStrategies
    /\ defenderStrategy = "reactive"
    /\ lastCall = [fn |-> "initializeGame"]
    /\ callCount = 0

\* Lines 66-104: one iteration of the while loop.
RunTurn ==
    /\ service = "bench"
    /\ ~gameState.gameOver
    /\ gameState.turnNumber <= gameConfig.maxTurns
    /\ \E success \in BOOLEAN :
        LET player == gameState.currentTurn
            move == IF player = "attacker"
                    THEN getAIMove(gameState, nodeState, attackerStrategy,
                                   defenderStrategy)
                    ELSE defenderReactive(gameState, nodeState)
            r == IF move = NoMove
                 THEN [newState |-> gameState, nodeState |-> nodeState,
                       outcome |-> "no_move"]
                 ELSE executeAttackerMove(gameState, nodeState, move,
                                          success)
            switched == switchTurn(r.newState)
            winCheck == checkWinCondition(switched, gameConfig)
        IN  /\ gameState' = IF winCheck.gameOver
                            THEN [switched EXCEPT
                                     !.gameOver = TRUE,
                                     !.winner = winCheck.winner]
                            ELSE switched
            /\ nodeState' = r.nodeState
            /\ lastCall' = [fn |-> "runSingleGame", player |-> player,
                            move |-> move, outcome |-> r.outcome]
    /\ UNCHANGED <<service, nodes, attrs, trust, meme, costVars, astarArgs,
                   astarVars, celfArgs, celfVars, genVars, gameConfig,
                   attackerStrategy, defenderStrategy, callCount>>

NextBench == RunTurn

SpecBench == InitBench /\ [][NextBench]_vars

----------------------------------------------------------------------------
(* The services that only read the graph, each on its own inputs.         *)

Init == InitCost \/ InitAStar \/ InitCelf

Next == NextCost \/ NextAStar \/ NextCelf

Spec == Init /\ [][Next]_vars

----------------------------------------------------------------------------
(* network-generation.ts.  A trust weight is stored in hundredths here.    *)
(* A node is its index in network.nodes counted from 1 (node_0 is node 1). *)
(* Of the attributes createNode draws, calculateTrustWeight reads          *)
(* identity_class and political_leaning (tenths).  Each generator loop     *)
(* advances one iteration per step, its locals in gen: i, j the loop       *)
(* indices (i is the edge index while rewiring), noisy the number of       *)
(* calls of addNoise that drew a non-zero noise, rewired the number of     *)
(* edges rewired, connected and degrees those of generateScaleFreeEdges.   *)

\* Line 95: addNoise(baseTrust, 0.15); the noise drawn is -0.15, 0 or 0.15.
NoiseLevel == 15

\* Lines 19-22, with the value of (Math.random() - 0.5) * 2 * noiseLevel.
addNoise(value, noise) == Max(0, Min(100, value + noise))

\* Lines 78-97.
calculateTrustWeight(nodeA, nodeB, noise) ==
    LET homophily ==
            IF nodeA.identity_class = nodeB.identity_class THEN 20 ELSE 0
        politicalDistance ==
            Abs(nodeA.political_leaning - nodeB.political_leaning)
        alignmentBonus == (10 - politicalDistance) * 3
        baseTrust == addNoise(50 + homophily + alignmentBonus, noise)
    IN  Max(10, Min(95, baseTrust))

\* Lines 27-47.
createNode(profile) ==
    [identity_class |-> profile.identity_class,
     political_leaning |-> profile.political_leaning,
     trust_network |-> <<>>,
     state |-> "susceptible"]

\* edges.push({source, target, trust_weight}) and the two trust_network
\* assignments that follow it in each generator.
AddEdge(net, a, b, w) ==
    [nodes |-> [n \in DOMAIN net.nodes |->
                  IF n \in {a, b}
                  THEN [net.nodes[n] EXCEPT
                           !.trust_network = Put(@, IF n = a THEN b ELSE a, w)]
                  ELSE net.nodes[n]],
     edges |-> Append(net.edges,
                      [source |-> a, target |-> b, trust_weight |-> w])]

\* Lines 248-250, 252: generateSmallWorldEdges(nodes, 6, 0.1),
\* generateScaleFreeEdges(nodes, 3).
LatticeK == 6
AttachM == 3

\* Largest number of non-zero noises, and of rewired edges, in one call.
MaxNoisy == 1
MaxRewired == 2

\* The size of the network generated, per type.
RandomSize == 4
SmallWorldSize == 8
ScaleFreeSize == 5

GenConfigs ==
    {[type |-> "random", size |-> RandomSize, avg_degree |-> 2],
     [type |-> "small-world", size |-> SmallWorldSize, avg_degree |-> 5],
     [type |-> "scale-free", size |-> ScaleFreeSize, avg_degree |-> 5]}

Noises ==
    IF gen.noisy < MaxNoisy THEN {-NoiseLevel, 0, NoiseLevel} ELSE {0}

Noisy(g, noise) == [g EXCEPT !.noisy = IF noise = 0 THEN @ ELSE @ + 1]

\* degrees = nodes.map(n => Object.keys(n.trust_network).length)
Degrees(net) ==
    [n \in DOMAIN net.nodes |-> Cardinality(DOMAIN net.nodes[n].trust_network)]

InitGen ==
    /\ service = "gen"
    /\ NoCost
    /\ NoNet
    /\ NoAStar
    /\ NoCelf
    /\ NoGame
    /\ meme = NeutralMeme
    /\ genConfig \in GenConfigs
    /\ network = <<>>
    /\ gen = [pc |-> "call"]

\* Lines 245-258: generateNodes, then the switch on config.type.  The
\* first half of the nodes is of one class, the rest of another.
GenerateNodes ==
    /\ service = "gen"
    /\ gen.pc = "call"
    /\ \E a \in Profiles, b \in Profiles :
        network' =
            [nodes |-> [n \in 1..genConfig.size |->
                          createNode(IF 2 * n <= genConfig.size
                                     THEN a ELSE b)],
             edges |-> <<>>]
    /\ gen' = [pc |-> CASE genConfig.type = "small-world" -> "lattice"
                        [] genConfig.type = "scale-free" -> "complete"
                        [] OTHER -> "random",
               i |-> 1,
               j |-> IF genConfig.type = "small-world" THEN 1 ELSE 2,
               noisy |-> 0, rewired |-> 0,
               connected |-> {}, degrees |-> <<>>]
    /\ UNCHANGED <<service, netVars, costVars, astarArgs, astarVars,
                   celfArgs, celfVars, gameVars, genConfig>>

\* The loop indices after the pair (i, j) of for i < n, for j in i+1..n-1
\* over the first n nodes; done when the loops have ended.
NextPair(g, n, done) ==
    IF g.j < n THEN [g EXCEPT !.j = @ + 1]
    ELSE IF g.i + 2 <= n THEN [g EXCEPT !.i = @ + 1, !.j = g.i + 2]
    ELSE done

\* Lines 102-125, one iteration of the inner loop: p = avgDegree / (n - 1),
\* and Math.random() < p holds or not.
RandomStep ==
    /\ service = "gen"
    /\ gen.pc = "random"
    /\ LET n == genConfig.size
           next == NextPair(gen, n, [gen EXCEPT !.pc = "returned"])
       IN  \/ /\ genConfig.avg_degree > 0
              /\ \E noise \in Noises :
                    /\ network' =
                          AddEdge(network, gen.i, gen.j,
                                  calculateTrustWeight(network.nodes[gen.i],
                                      network.nodes[gen.j], noise))
                    /\ gen' = Noisy(next, noise)
           \/ /\ genConfig.avg_degree < n - 1
              /\ network' = network
              /\ gen' = next
    /\ UNCHANGED <<service, netVars, costVars, astarArgs, astarVars,
                   celfArgs, celfVars, gameVars, genConfig>>

\* Lines 135-149, one iteration of the inner loop of the ring lattice.
LatticeStep ==
    /\ service = "gen"
    /\ gen.pc = "lattice"
    /\ LET n == genConfig.size
           neighbor == ((gen.i - 1 + gen.j) % n) + 1
           next == IF 2 * (gen.j + 1) <= LatticeK
                   THEN [gen EXCEPT !.j = @ + 1]
                   ELSE IF gen.i < n THEN [gen EXCEPT !.i = @ + 1, !.j = 1]
                   ELSE [gen EXCEPT !.pc = "rewire", !.i = 1]
       IN  \E noise \in Noises :
              /\ network' =
                    AddEdge(network, gen.i, neighbor,
                            calculateTrustWeight(network.nodes[gen.i],
                                network.nodes[neighbor], noise))
              /\ gen' = Noisy(next, noise)
    /\ UNCHANGED <<service, netVars, costVars, astarArgs, astarVars,
                   celfArgs, celfVars, gameVars, genConfig>>

\* Lines 153-175, one iteration of the loop over edgesToRewire: the edge
\* is left alone, or it is given a new target found by the while loop of
\* lines 159-164, or that loop finds no index it accepts and never ends.
RewireStep ==
    /\ service = "gen"
    /\ gen.pc = "rewire"
    /\ LET n == genConfig.size
           edge == network.edges[gen.i]
           sourceNode == edge.source
           accepted ==
              {t \in 1..n :
                  /\ t # sourceNode
                  /\ t \notin DOMAIN network.nodes[sourceNode].trust_network}
           next == IF gen.i < Len(network.edges)
                   THEN [gen EXCEPT !.i = @ + 1]
                   ELSE [gen EXCEPT !.pc = "returned"]
       IN  \/ /\ network' = network
              /\ gen' = next
           \/ /\ gen.rewired < MaxRewired
              /\ \E newTarget \in accepted, noise \in Noises :
                    LET w == calculateTrustWeight(network.nodes[sourceNode],
                                 network.nodes[newTarget], noise)
                    IN  /\ network' =
                              [nodes |->
                                  [m \in DOMAIN network.nodes |->
                                     IF m = sourceNode
                                     THEN [network.nodes[m] EXCEPT
                                             !.trust_network =
                                                Put(@, newTarget, w)]
                                     ELSE IF m = newTarget
                                     THEN [network.nodes[m] EXCEPT
                                             !.trust_network =
                                                Put(@, sourceNode, w)]
                                     ELSE network.nodes[m]],
                               edges |->
                                  [network.edges EXCEPT
                                     ![gen.i] = [source |-> sourceNode,
                                                 target |-> newTarget,
                                                 trust_weight |-> w]]]
                        /\ gen' = Noisy([next EXCEPT !.rewired = @ + 1],
                                        noise)
           \/ /\ gen.rewired < MaxRewired
              /\ accepted = {}
              /\ network' = network
              /\ gen' = [gen EXCEPT !.pc = "diverged"]
    /\ UNCHANGED <<service, netVars, costVars, astarArgs, astarVars,
                   celfArgs, celfVars, gameVars, genConfig>>

\* Lines 187-200, one iteration of the inner loop of the complete graph
\* on the first m0 = Math.min(m + 1, nodes.length) nodes.
CompleteStep ==
    /\ service = "gen"
    /\ gen.pc = "complete"
    /\ LET n == genConfig.size
           m0 == Min(AttachM + 1, n)
       IN  \E noise \in Noises :
              LET net == AddEdge(network, gen.i, gen.j,
                            calculateTrustWeight(network.nodes[gen.i],
                                network.nodes[gen.j], noise))
                  done == IF m0 < n
                          THEN [gen EXCEPT !.pc = "attach", !.i = m0 + 1,
                                           !.connected = {},
                                           !.degrees = Degrees(net)]
                          ELSE [gen EXCEPT !.pc = "returned"]
              IN  /\ network' = net
                  /\ gen' = Noisy(NextPair(gen, m0, done), noise)
    /\ UNCHANGED <<service, netVars, costVars, astarArgs, astarVars,
                   celfArgs, celfVars, gameVars, genConfig>>

\* Lines 203-237, one iteration of the while loop that connects the new
\* node i to a target it is not connected to yet (an iteration that draws
\* a connected target changes nothing).  The draw selects the first index
\* or an earlier node of positive degree.
AttachStep ==
    /\ service = "gen"
    /\ gen.pc = "attach"
    /\ LET n == genConfig.size
           newNode == gen.i
           selectable ==
              {1} \cup {t \in 1..(newNode - 1) : gen.degrees[t] > 0}
       IN  \E targetIndex \in selectable \ gen.connected,
              noise \in Noises :
              LET net == AddEdge(network, newNode, targetIndex,
                            calculateTrustWeight(network.nodes[newNode],
                                network.nodes[targetIndex], noise))
                  connected == gen.connected \cup {targetIndex}
                  next ==
                     IF Cardinality(connected) < Min(AttachM, newNode - 1)
                     THEN [gen EXCEPT !.connected = connected]
                     ELSE IF newNode < n
                     THEN [gen EXCEPT !.i = @ + 1, !.connected = {},
                                      !.degrees = Degrees(net)]
                     ELSE [gen EXCEPT !.pc = "returned"]
              IN  /\ network' = net
                  /\ gen' = Noisy(next, noise)
    /\ UNCHANGED <<service, netVars, costVars, astarArgs, astarVars,
                   celfArgs, celfVars, gameVars, genConfig>>

NextGen ==
    \/ GenerateNodes
    \/ RandomStep
    \/ LatticeStep
    \/ RewireStep
    \/ CompleteStep
    \/ AttachStep

SpecGen == InitGen /\ [][NextGen]_vars

----------------------------------------------------------------------------
(* Reference definitions the claims about astarInfluencePath are stated    *)
(* against: reachability and the cheapest path cost, by relaxation.        *)

NodeSet == Range(nodes)

ValidCall == startNodeId \in NodeSet /\ targetNodeId \in NodeSet

RECURSIVE ReachClosure(_)
ReachClosure(S) ==
    LET T == S \cup {v \in NodeSet : \E u \in S : v \in DOMAIN trust[u]}
    IN  IF T = S THEN S ELSE ReachClosure(T)

ReachableFrom(s) == ReachClosure({s})

\* d after k more rounds of relaxing every edge u -> v with the mode's
\* edge cost.
RECURSIVE Relax(_, _)
Relax(d, k) ==
    IF k = 0 THEN d
    ELSE Relax([v \in NodeSet |->
                  LET via == {d[u] + stepCost(u, v, mode) :
                                u \in {x \in NodeSet : v \in DOMAIN trust[x]
                                                       /\ d[x] < Infinity}}
                  IN  IF via = {} THEN d[v]
                      ELSE Min(d[v], CHOOSE c \in via :
                                        \A c2 \in via : c <= c2)],
               k - 1)

\* The minimum, over all paths from s to t, of the sum of the mode's edge
\* costs (Infinity when there is none).
MinPathCost(s, t) ==
    Relax([v \in NodeSet |-> IF v = s THEN 0 ELSE Infinity],
          Len(nodes) - 1)[t]

\* The sum of the mode's edge costs along a path.
RECURSIVE PathCost(_)
PathCost(path) ==
    IF Len(path) < 2 THEN 0
    ELSE stepCost(path[1], path[2], mode) + PathCost(Tail(path))

Returned == service = "astar" /\ pc = "returned"

\* C1: a successful search returns the minimum path cost.
C1_Optimal ==
    (Returned /\ result.success) =>
        result.cost = MinPathCost(startNodeId, targetNodeId)

\* C2: every heuristic value the search has computed (f - g of a node) is
\* at most the cheapest cost from that node to the target.
C2_Admissible ==
    (service = "astar" /\ pc = "loop") =>
        \A n \in DOMAIN fScores :
            targetNodeId \in ReachableFrom(n) =>
                fScores[n] - gScores[n] <= MinPathCost(n, targetNodeId)

\* C6: with the target unreachable, the search fails with an empty path
\* and exploredCount is the size of the source's component.
C6_NoPath ==
    (Returned /\ ValidCall /\ targetNodeId \notin ReachableFrom(startNodeId))
        => /\ ~result.success
           /\ result.path = <<>>
           /\ result.exploredCount = Cardinality(ReachableFrom(startNodeId))

\* A failed search over a component of three or more nodes.
C6_Witness ==
    /\ Returned /\ ValidCall
    /\ targetNodeId \notin ReachableFrom(startNodeId)
    /\ Cardinality(ReachableFrom(startNodeId)) >= 3
    /\ result.exploredCount >= 3

\* C7: an unknown source or target id fails at once: nothing explored, no
\* frame, nothing pushed or popped.
C7_InvalidReference ==
    (Returned /\ ~ValidCall) =>
        /\ ~result.success
        /\ result.path = <<>>
        /\ result.exploredCount = 0
        /\ result.frames = 0
        /\ frames = <<>> /\ openSet = <<>> /\ closedSet = {}
        /\ gScores = <<>>

\* The call with a known source and an unknown target has returned.
C7_Witness ==
    /\ Returned
    /\ startNodeId \in NodeSet
    /\ targetNodeId \notin NodeSet
    /\ ~result.success

\* C8: no node is popped and expanded twice: the frames name each node at
\* most once.
C8_NoReexpansion ==
    service = "astar" =>
        \A i, j \in 1..Len(frames) :
            i # j => frames[i].currentNode # frames[j].currentNode

\* The graph is the ring of the concrete scenario.
IsRing ==
    /\ NodeSet = RingNodes
    /\ \A i \in RingNodes : attrs[i] = attrs[1]
    /\ trust = RingTrust

\* C10: on the ring, mode A from node 0 to node 2 (ids 1 and 3) succeeds
\* with path [0,1,2] and the cost of its two edges.
C10_Ring ==
    (Returned /\ IsRing /\ mode = "social_trust"
       /\ startNodeId = 1 /\ targetNodeId = 3)
        => /\ result.success
           /\ result.path = <<1, 2, 3>>
           /\ result.cost = stepCost(1, 2, mode) + stepCost(2, 3, mode)

C10_Witness ==
    /\ Returned /\ IsRing /\ mode = "social_trust"
    /\ startNodeId = 1 /\ targetNodeId = 3
    /\ result.success
    /\ result.exploredCount = 4

----------------------------------------------------------------------------
\* C9: both cost functions stay inside their clamps: mode A in
\* [0.05, 2.0], mode B in [0.05, 0.95]; never zero, never infinite.
C9_CostBounds ==
    costOut.done =>
        /\ costOut.social >= Lit005 /\ costOut.social <= Lit2
        /\ costOut.meme >= Lit005 /\ costOut.meme <= Lit095

\* A perfectly trusted edge (raw mode A cost 0) has been costed, and the
\* lower clamp of mode A has acted.
C9_Witness ==
    /\ costOut.done
    /\ costIn.trustWeight = 10
    /\ costOut.social = Lit005
    /\ costOut.meme < Lit095

----------------------------------------------------------------------------
(* Claims about celfSelection and celfPlusPlusSelection.                   *)

SelectorsReturned == service = "celf" /\ celfpp.pc = "returned"

\* C3: run on the same graph, content, budget and draws (estimateSpread
\* is then the same function of the seed set in both runs), celfSelection
\* and celfPlusPlusSelection return the same seed set.
C3_SameSeedSet ==
    SelectorsReturned => Range(celf.seeds) = Range(celfpp.seeds)

\* C4: on the same graph, content and budget, celfPlusPlusSelection makes
\* strictly fewer estimateSpread calls, initialisation and rounds
\* together, than celfSelection.
C4_FewerCalls ==
    SelectorsReturned => celfpp.calls < celf.calls

----------------------------------------------------------------------------
(* Claims about the graph the services are handed.                         *)

\* C5: no step of astarInfluencePath, estimateSpread, celfSelection or
\* celfPlusPlusSelection changes a node's state field or its
\* trust_network: after a call both are what they were before it.
C5_ReadOnlyGraph == [][nodeState' = nodeState /\ trust' = trust]_vars

\* Both selectors have returned, and the cascade from the seeds picked
\* reaches, in its local infected set, a node that is no seed and whose
\* state field still reads susceptible.
C5_Witness ==
    /\ SelectorsReturned
    /\ celf.seeds # <<>>
    /\ LET run == Cascade(NewRun(celf.seeds))
       IN  \E n \in run.infected \ Range(celf.seeds) :
              nodeState[n] = "susceptible"

----------------------------------------------------------------------------
(* Claims about the list the selectors return.                             *)

\* The nodes whose state field reads susceptible.
Susceptible == {n \in Range(nodes) : nodeState[n] = "susceptible"}

NoRepeat(seq) == \A i, j \in 1..Len(seq) : seq[i] = seq[j] => i = j

IsPrefix(a, b) == Len(a) <= Len(b) /\ SubSeq(b, 1, Len(a)) = a

\* The seeds a selector holds: none before its initialisation.
SeedsOf(c) == IF c.pc = "call" THEN <<>> ELSE c.seeds

WellFormedSeeds(c) ==
    /\ Len(SeedsOf(c)) <= budget
    /\ NoRepeat(SeedsOf(c))
    /\ Range(SeedsOf(c)) \subseteq Susceptible

\* C11: the list of celfSelection and of celfPlusPlusSelection has at most
\* `budget` entries, no id twice, only ids of nodes that were susceptible
\* at call time, and is in acceptance order: a step leaves the list alone
\* or appends one id at its end.
C11_SeedSetWellFormed ==
    /\ [](service = "celf" => WellFormedSeeds(celf) /\ WellFormedSeeds(celfpp))
    /\ [][service = "celf" =>
            /\ IsPrefix(SeedsOf(celf), SeedsOf(celf)')
            /\ IsPrefix(SeedsOf(celfpp), SeedsOf(celfpp)')
            /\ Len(SeedsOf(celf)') <= Len(SeedsOf(celf)) + 1
            /\ Len(SeedsOf(celfpp)') <= Len(SeedsOf(celfpp)) + 1]_vars

\* Both selectors returned a full list of at least two seeds from a graph
\* in which a node was not susceptible.
C11_Witness ==
    /\ SelectorsReturned
    /\ budget >= 2
    /\ Len(celf.seeds) = budget
    /\ Len(celfpp.seeds) = budget
    /\ Susceptible # Range(nodes)

ExpectedSeedCount == Min(budget, Cardinality(Susceptible))

\* The steps a selector has left at most: 0 once it returned; in its
\* loop, the seeds still to pick, each worth one more than the queue can
\* hold, plus the queue entries whose gain is not current.
StepsLeft(c) ==
    IF c.pc = "returned" THEN 0
    ELSE IF c.pc = "call" THEN (budget + 1) * (Len(nodes) + 1) + 2
    ELSE 1 + (budget - Len(c.seeds)) * (Len(nodes) + 1)
           + Cardinality({i \in 1..Len(c.Q) : c.Q[i].flag # Len(c.seeds)})

\* The guard of one of the selector's steps holds.
StepPossible(c) ==
    \/ c.pc = "call"
    \/ c.pc = "loop" /\ ~CelfContinues(c)
    \/ c.pc = "loop" /\ CelfContinues(c) /\ c.Q[1].flag = Len(c.seeds)
    \/ c.pc = "loop" /\ CelfContinues(c) /\ c.Q[1].flag # Len(c.seeds)
         /\ c.Q[1].nodeId \in Range(nodes)

Rejected(c) == c.pc = "call" \/ (c.calls = 0 /\ c.pc # "returned")

\* C13: a call with a simulation count <= 0, or with a budget larger than
\* the number of susceptible nodes, is rejected before any estimateSpread
\* call is made, and returns no degraded result.
C13_MisuseRejected ==
    (service = "celf"
        /\ (simulations <= 0 \/ budget > Cardinality(Susceptible)))
    => Rejected(celf) /\ Rejected(celfpp)

\* The product of the factors of the acceptance probability, over 32000,
\* computed factor by factor from the attributes of the call.
AcceptanceProduct ==
    LET node == costIn.targetNode
        politicalDistance ==
            IF node.political_leaning >= meme.political_bias
            THEN node.political_leaning - meme.political_bias
            ELSE meme.political_bias - node.political_leaning
        penalty ==
            IF meme.factual_accuracy >= 2 THEN 0
            ELSE node.critical_thinking * (4 - meme.factual_accuracy)
        boost == 4 + meme.virality_factor * node.emotional_susceptibility
    IN  3 * costIn.trustWeight * (10 - politicalDistance) * (8 - penalty)
          * boost

\* The acceptance probability expected for a product over 32000.
ClampedAcceptance(product) ==
    IF product * 2000 < Lit005 THEN Lit005
    ELSE IF product * 2000 > Lit095 THEN Lit095
    ELSE product * 2000

\* C14 as stated: the acceptance probability is the clamped product
\* 0.3 x trustWeight x alignmentScore x viralityBoost x credibilityFactor.
C14_WithCredibilityFactor ==
    costOut.done =>
        costOut.accept =
            calculateAcceptanceWithCredibility(costIn.targetNode,
                meme, costIn.sourceNode, costIn.trustWeight)

\* C14 (amended): the acceptance probability is
\* clamp(0.3 x trustWeight x alignmentScore x viralityBoost, 0.05, 0.95),
\* without a credibility factor: it lies in [0.05, 0.95] and is the same
\* for every source_credibility.
C14_AcceptanceFormula ==
    costOut.done =>
        /\ costOut.accept = ClampedAcceptance(AcceptanceProduct)
        /\ Lit005 <= costOut.accept /\ costOut.accept <= Lit095
        /\ \A sc \in {0, 1, 2} :
              calculateAcceptanceProbability(costIn.targetNode,
                  [meme EXCEPT !.source_credibility = sc],
                  costIn.sourceNode, costIn.trustWeight) = costOut.accept

\* An evaluated call whose product is strictly inside the clamp, for a meme
\* whose source_credibility would lower it.
C14_Witness ==
    /\ costOut.done
    /\ Lit005 < costOut.accept /\ costOut.accept < Lit095
    /\ meme.source_credibility = 0
    /\ costOut.accept = AcceptanceProduct * 2000

----------------------------------------------------------------------------
(* The game engine and the CompetitiveMode component.                      *)

\* C15: over any sequence of executeAttackerMove / executeDefenderMove
\* calls, a node id that is in resistantNodes is never afterwards added to
\* infectedNodes, and its state never becomes 'infected'.
C15_ResistancePermanent ==
    [][service = "engine" =>
          \A n \in gameState.resistantNodes :
              /\ n \notin Range(gameState'.infectedNodes)
              /\ nodeState'[n] # "infected"]_vars

\* The adjacency rule of an infect on node t, on the state before the move.
AdjacencyHolds(t) ==
    \/ gameState.infectedNodes = <<>>
    \/ \E n \in Range(gameState.infectedNodes) : n \in DOMAIN trust[t]

\* C17: executeAttackerMove with type 'infect' adds its target to
\* infectedNodes only if infectedNodes was empty before the move or the
\* target has an infected node in its trust_network; a move violating this
\* returns the state unchanged, with no budget spent.
C17_InfectionAdjacency ==
    [][(service = "engine"
           /\ lastCall'.fn = "executeAttackerMove"
           /\ lastCall'.move.type = "infect")
       => LET t == lastCall'.move.targetNodeId
              added == Range(gameState'.infectedNodes)
                          \ Range(gameState.infectedNodes)
          IN  /\ added \subseteq {t}
              /\ added # {} => t \in Range(nodes) /\ AdjacencyHolds(t)
              /\ (t \in Range(nodes) /\ ~AdjacencyHolds(t))
                    => /\ gameState' = gameState
                       /\ nodeState' = nodeState
                       /\ lastCall'.outcome = "rejected"]_vars

\* An infect rejected for want of an infected neighbour, after one infect
\* with no infection yet and one on a neighbour of the infected node: two
\* moves were paid for.
C17_Witness ==
    /\ service = "engine"
    /\ lastCall.fn = "executeAttackerMove"
    /\ lastCall.outcome = "rejected"
    /\ Len(gameState.infectedNodes) = 2
    /\ gameState.infectedNodes[1] \in DOMAIN trust[gameState.infectedNodes[2]]
    /\ gameState.attackerBudget = gameConfig.attackerBudget - 2

\* The attacker move was executed: a mutate_meme, or an infect the
\* adjacency rule lets through (successful or failed), on an existing
\* target.  The defender move was executed: a factcheck or an inoculate on
\* an existing target, whatever the state of the target.
AttackerMoveExecuted(move) ==
    /\ move.targetNodeId \in Range(nodes)
    /\ \/ move.type = "mutate_meme"
       \/ move.type = "infect" /\ AdjacencyHolds(move.targetNodeId)

DefenderMoveExecuted(move) ==
    /\ move.targetNodeId \in Range(nodes)
    /\ move.type \in {"factcheck", "inoculate"}

C16_InitialState ==
    (service = "game" /\ lastCall.fn = "initializeGame")
    => /\ gameState.infectedNodes = <<>>
       /\ gameState.resistantNodes = {}
       /\ \A n \in Range(nodes) : nodeState[n] = "susceptible"

\* infectedNodes.size / number of nodes >= winThreshold, in the state the
\* component holds.
ThresholdReached ==
    Len(gameState.infectedNodes) * 10
        >= gameConfig.winThreshold * Len(nodes)

\* C19: whenever a game is marked gameOver, the winner is 'attacker' if and
\* only if the infection rate is at least winThreshold; the defender is the
\* winner only while the rate is below the threshold and either
\* turnNumber > maxTurns or attackerBudget <= 0.
C19_WinnerConsistency ==
    (service = "game" /\ gameState.gameOver)
    => /\ gameState.winner \in {"attacker", "defender"}
       /\ gameState.winner = "attacker" <=> ThresholdReached
       /\ gameState.winner = "defender"
            => /\ ~ThresholdReached
               /\ \/ gameState.turnNumber > gameConfig.maxTurns
                  \/ gameState.attackerBudget <= 0

\* A game the defender won on the turn limit with a node still infected.
C19_Witness ==
    /\ service = "game"
    /\ gameState.gameOver
    /\ gameState.winner = "defender"
    /\ gameState.turnNumber > gameConfig.maxTurns
    /\ gameState.attackerBudget > 0
    /\ Len(gameState.infectedNodes) = 1

\* getAIMove finds no move for the player, in the state the component
\* holds.
NoMoveFor(player) ==
    getAIMove([gameState EXCEPT !.currentTurn = player], nodeState,
              attackerStrategy, defenderStrategy) = NoMove

\* The game is not over and neither player has a move: executeTurn only
\* passes the turn, without a win check, and the nodes and sets the
\* strategies read never change again.
Stalled ==
    /\ ~gameState.gameOver
    /\ NoMoveFor("attacker")
    /\ NoMoveFor("defender")

\* A stalled game stays stalled.
StalledStays == [][service = "game" /\ Stalled => Stalled']_vars

\* C20: in the turn loop, from the initial state, every game eventually
\* reaches gameOver = TRUE; so no game reaches a state from which
\* executeTurn can never set gameOver.
C20_GameTerminates ==
    (service = "game" /\ callCount = 0) => ~Stalled

\* C21: executeAttackerMove and executeDefenderMove do not modify the
\* GameState passed in: after the call its infectedNodes, resistantNodes,
\* activeMemes, budgets and node states are as before the call.
C21_ImmutableUpdates ==
    [][(service = "engine"
           /\ lastCall'.fn \in {"executeAttackerMove", "executeDefenderMove"})
       => /\ lastCall'.input = gameState
          /\ nodeState' = nodeState]_vars

----------------------------------------------------------------------------
(* Claims about the lazy evaluation of the selectors.  sigma is the value  *)
(* estimateSpread returns, a function of the seed set once the draws are   *)
(* fixed.                                                                  *)

\* sigma(S), S a set of node ids.
Sigma(S) == estimateSpread(SeqOfSet(S), simulations).value

\* sigma(S + u) - sigma(S)
TrueGain(S, u) == Sigma(S \cup {u}) - Sigma(S)

\* sigma is monotone and submodular: a node's marginal gain is never
\* negative and never grows when a node joins the seed set.
MonotoneSubmodular ==
    \A S \in SUBSET Range(nodes) :
        \A u \in Range(nodes) \ S :
            /\ TrueGain(S, u) >= 0
            /\ \A v \in Range(nodes) \ (S \cup {u}) :
                    TrueGain(S \cup {v}, u) <= TrueGain(S, u)

\* C22: estimateSpread being deterministic, monotone and submodular, every
\* node celfSelection accepts has, when it is accepted, a marginal gain
\* against the current seed set that is at least the marginal gain of
\* every candidate still in the queue.  (sigma depends on the graph, the
\* attributes and the draws, not on the budget or the node states: the
\* calls with budget 0 on all-susceptible graphs go through every sigma.)
C22_CelfGreedy ==
    /\ [](service = "celf" /\ celf.pc = "call" /\ budget = 0
            /\ Susceptible = Range(nodes)
          => MonotoneSubmodular)
    /\ [][(service = "celf" /\ celf.pc = "loop"
              /\ Len(celf'.seeds) = Len(celf.seeds) + 1)
          => LET S == Range(celf.seeds)
                 u == celf'.seeds[Len(celf'.seeds)]
             IN  \A i \in 1..Len(celf'.Q) :
                    TrueGain(S, u) >= TrueGain(S, celf'.Q[i].nodeId)]_vars

\* celfSelection returned two seeds and left in the queue a candidate
\* whose stored gain was never recomputed and is above its true gain
\* against the seeds.
C22_Witness ==
    /\ service = "celf"
    /\ celf.pc = "returned"
    /\ Len(celf.seeds) = 2
    /\ \E i \in 1..Len(celf.Q) :
            /\ celf.Q[i].flag = 0
            /\ celf.Q[i].mg1 > TrueGain(Range(celf.seeds), celf.Q[i].nodeId)

\* C23: whenever celfPlusPlusSelection reuses the cached mg2 of the top u
\* as its mg1 (u.prevBest is the last chosen seed), that value is
\* sigma(S + u) - sigma(S) for the current seed set S; and every node it
\* accepts carries an mg1 equal to its true marginal gain against S.
C23_CacheSound ==
    [][(service = "celf" /\ celfpp.pc = "loop" /\ CelfContinues(celfpp)
           /\ celfpp' # celfpp)
       => LET u == celfpp.Q[1]
              S == Range(celfpp.seeds)
          IN  /\ (u.flag # Len(celfpp.seeds)
                     /\ u.prevBest = celfpp.lastSeed)
                  => u.mg2 = TrueGain(S, u.nodeId)
              /\ u.flag = Len(celfpp.seeds)
                  => u.mg1 = TrueGain(S, u.nodeId)]_vars

----------------------------------------------------------------------------
(* Claims about one simulation run of estimateSpread.                      *)

\* The run of the while loop from a seed set.
RunFrom(S) == Cascade(NewRun(SeqOfSet(S)))

\* The loop has ended, and every id was pushed and shifted at most once:
\* the ids shifted are the members of infected, each of them once.
EachNodeOnce(run) ==
    /\ run.queue = <<>>
    /\ NoRepeat(run.dequeued)
    /\ Range(run.dequeued) = run.infected
    /\ Len(run.dequeued) <= Len(nodes)

\* C24: a simulation run of estimateSpread ends for every seed set and
\* every outcome of the draws, and it pushes and shifts each node id at
\* most once (a node is added to infected at most once).
C24_CascadeTerminates ==
    service = "celf" =>
        /\ (celf.pc = "call" /\ celfpp.pc = "call")
                => \A S \in SUBSET Range(nodes) : EachNodeOnce(RunFrom(S))
        /\ celf.pc # "call" => EachNodeOnce(Cascade(NewRun(celf.seeds)))

\* The selector has returned two seeds or more, and in the run from them
\* a node was pushed by a neighbour and, when shifted in its turn, met
\* two neighbours that were in infected already (the one that pushed it
\* and another seed) and pushed neither again.
C24_Witness ==
    /\ service = "celf" /\ celf.pc = "returned" /\ Len(celf.seeds) >= 2
    /\ LET run == Cascade(NewRun(celf.seeds))
       IN  \E e \in run.via :
              /\ e.to \in Range(run.dequeued)
              /\ \E b \in Range(celf.seeds) \ {e.from} :
                     b \in DOMAIN trust[e.to]

\* What a run from the seed set S holds at its end, and what
\* estimateSpread returns for S.
CascadeBounded(S) ==
    LET run == RunFrom(S)
        value == estimateSpread(SeqOfSet(S), simulations).value
    IN  /\ S \subseteq run.infected
        /\ run.infected \ S = {e.to : e \in run.via}
        /\ \A e \in run.via :
              /\ S \subseteq e.before /\ e.before \subseteq run.infected
              /\ e.from \in e.before /\ e.to \notin e.before
              /\ e.to \in DOMAIN trust[e.from]
              /\ e.from \in Range(run.dequeued)
        /\ run.infected \subseteq ReachClosure(S)
        /\ value = Cardinality(run.infected)
        /\ Cardinality(S) <= value
        /\ value <= Cardinality(ReachClosure(S))

\* C25: in a simulation run infected contains the seed set and only
\* grows, every member that is no seed was added as a trust neighbour of
\* a node that was in infected and had been shifted, the size of infected
\* (the value estimateSpread returns) lies between the size of the seed
\* set and the number of nodes reachable from it, and the spread of the
\* empty seed set is 0.
C25_CascadeBounds ==
    service = "celf" =>
        /\ (celf.pc = "call" /\ celfpp.pc = "call")
                => /\ \A S \in SUBSET Range(nodes) : CascadeBounded(S)
                   /\ estimateSpread(<<>>, simulations).value = 0
        /\ celf.pc # "call" => CascadeBounded(Range(celf.seeds))

\* The selector has returned, and the run from its seeds added a node
\* that is no seed and left out a node reachable from the seeds.
C25_Witness ==
    /\ service = "celf" /\ celf.pc = "returned" /\ celf.seeds # <<>>
    /\ LET run == Cascade(NewRun(celf.seeds))
       IN  /\ Len(celf.seeds) < Cardinality(run.infected)
           /\ Cardinality(run.infected)
                 < Cardinality(ReachClosure(Range(celf.seeds)))

----------------------------------------------------------------------------
\* C26: the path of a successful search starts with the source, ends with
\* the target, holds no node twice, follows a trust edge at every step,
\* and the cost returned is the sum of the mode's edge costs along it.
C26_PathWellFormed ==
    (Returned /\ result.success) =>
        LET path == result.path
        IN  /\ path # <<>>
            /\ path[1] = startNodeId
            /\ path[Len(path)] = targetNodeId
            /\ NoRepeat(path)
            /\ \A i \in 1..(Len(path) - 1) :
                  path[i + 1] \in DOMAIN trust[path[i]]
            /\ result.cost = PathCost(path)

\* A successful search whose path has three nodes or more, after it
\* expanded a node that is not on the path.
C26_Witness ==
    /\ Returned /\ result.success
    /\ Len(result.path) >= 3
    /\ \E i \in 1..Len(frames) :
          frames[i].currentNode \notin Range(result.path)

----------------------------------------------------------------------------
(* The order of the pops of openSet, read from the frames: frame k is the  *)
(* k-th pop, and an entry is known by its path.                            *)

\* The priority an entry was pushed with: g + h (0 for the first push).
PushedPriority(path) ==
    IF Len(path) = 1 THEN 0
    ELSE PathCost(path)
           + calculateHeuristic(path[Len(path)], targetNodeId, meme, mode)

\* When an entry was pushed: the pop during which its parent entry was
\* expanded, and its rank among the neighbours of that pop.
PushedAt(path) ==
    IF Len(path) = 1 THEN <<0, 0>>
    ELSE LET parent == SubSeq(path, 1, Len(path) - 1)
             k == CHOOSE i \in 1..Len(frames) : frames[i].path = parent
         IN  <<k, CHOOSE n \in 1..Len(nodes) : nodes[n] = path[Len(path)]>>

PushedBefore(p, q) ==
    \/ PushedAt(p)[1] < PushedAt(q)[1]
    \/ PushedAt(p)[1] = PushedAt(q)[1] /\ PushedAt(p)[2] < PushedAt(q)[2]

\* C27: of two entries that were in the frontier together, the one of
\* strictly lower priority is popped first whatever the push order, and
\* of two of equal priority the one pushed first is popped first.
C27_FifoTies ==
    service = "astar" =>
        \A i, j \in 1..Len(frames) :
            (i < j /\ PushedAt(frames[j].path)[1] < i) =>
                LET x == frames[i].path
                    y == frames[j].path
                IN  /\ PushedPriority(x) <= PushedPriority(y)
                    /\ PushedPriority(x) = PushedPriority(y)
                          => PushedBefore(x, y)

\* Two entries of equal priority were in the frontier together and both
\* were popped; so were two entries of which the one pushed later had
\* the strictly lower priority.
C27_Witness ==
    /\ Returned
    /\ \E i, j \in 1..Len(frames) :
          /\ i < j /\ PushedAt(frames[j].path)[1] < i
          /\ PushedPriority(frames[i].path) = PushedPriority(frames[j].path)
    /\ \E i, j \in 1..Len(frames) :
          /\ i < j /\ PushedAt(frames[j].path)[1] < i
          /\ PushedPriority(frames[i].path) < PushedPriority(frames[j].path)
          /\ PushedBefore(frames[j].path, frames[i].path)

----------------------------------------------------------------------------
\* The edges of network.edges that join u and v, by index.
EdgesJoining(u, v) ==
    {k \in 1..Len(network.edges) :
        {network.edges[k].source, network.edges[k].target} = {u, v}}

\* C28: in the network generateNetwork returns, v is a key of u's
\* trust_network with weight w exactly when network.edges holds one edge,
\* and only one, joining u and v, of trust_weight w; and trust_network is
\* symmetric.
C28_EdgeTrustConsistent ==
    (service = "gen" /\ gen.pc = "returned") =>
        \A u, v \in 1..Len(network.nodes) :
            LET tn == network.nodes[u].trust_network
                joining == EdgesJoining(u, v)
            IN  /\ v \in DOMAIN tn <=> Cardinality(joining) = 1
                /\ v \in DOMAIN tn =>
                      /\ \A k \in joining :
                            network.edges[k].trust_weight = tn[v]
                      /\ u \in DOMAIN network.nodes[v].trust_network
                      /\ network.nodes[v].trust_network[u] = tn[v]

----------------------------------------------------------------------------
Other(player) == IF player = "attacker" THEN "defender" ELSE "attacker"

\* What switchTurn returns for state: the turn flipped, the number one
\* higher when the new turn is the attacker's, every other field kept.
SwitchedFrom(state, new) ==
    /\ new.currentTurn = Other(state.currentTurn)
    /\ new.turnNumber = IF new.currentTurn = "attacker"
                        THEN state.turnNumber + 1 ELSE state.turnNumber
    /\ [new EXCEPT !.currentTurn = state.currentTurn,
                   !.turnNumber = state.turnNumber] = state

\* C29: switchTurn flips currentTurn, adds 1 to turnNumber when the new
\* turn is the attacker's and leaves it otherwise, and changes no other
\* field; every executeTurn hands the turn to the other player, and
\* turnNumber never decreases in a game.
C29_TurnAlternation ==
    /\ [](service = "game" => SwitchedFrom(gameState, switchTurn(gameState)))
    /\ [][(service = "game" /\ lastCall'.fn = "executeTurn"
              /\ gameState' # gameState)
          => /\ gameState'.currentTurn = Other(gameState.currentTurn)
             /\ gameState'.turnNumber =
                   IF gameState.currentTurn = "defender"
                   THEN gameState.turnNumber + 1 ELSE gameState.turnNumber
             /\ lastCall'.outcome = "no_move"
                   => SwitchedFrom(gameState, gameState')]_vars

\* The attacker is to play the third turn or a later one, and the
\* defender's turn before it was switched without a move.
C29_Witness ==
    /\ service = "game"
    /\ lastCall.fn = "executeTurn" /\ lastCall.outcome = "no_move"
    /\ gameState.currentTurn = "attacker"
    /\ gameState.turnNumber >= 3

----------------------------------------------------------------------------
\* C30: in every state of the CompetitiveMode turn loop neither budget is
\* negative (a player whose budget is 0 makes no move that costs one).
C30_BudgetsNonNegative ==
    service = "game" =>
        /\ gameState.attackerBudget >= 0
        /\ gameState.defenderBudget >= 0

----------------------------------------------------------------------------
\* The budget of the player whose turn it is in state.
BudgetOfCurrent(state) ==
    IF state.currentTurn = "attacker" THEN state.attackerBudget
    ELSE state.defenderBudget

\* The current player's execute function on move.
ExecuteCurrent(state, ns, move, success) ==
    IF state.currentTurn = "attacker"
    THEN executeAttackerMove(state, ns, move, success)
    ELSE executeDefenderMove(state, ns, move, success)

\* C31: every move getPossibleMoves returns for the current player is
\* carried out by that player's execute function on the same state (it is
\* not turned away for an unknown target or a missing infected
\* neighbour) and costs exactly 1 of that player's budget; a player whose
\* budget is 0 is offered no move.
C31_LegalMovesExecutable ==
    service = "game" =>
        LET moves == getPossibleMoves(gameState, nodeState)
        IN  /\ \A i \in 1..Len(moves), success \in BOOLEAN :
                  LET r == ExecuteCurrent(gameState, nodeState, moves[i],
                                          success)
                  IN  /\ r.outcome \notin {"no_target", "rejected", "ignored"}
                      /\ BudgetOfCurrent(r.newState)
                            = BudgetOfCurrent(gameState) - 1
            /\ BudgetOfCurrent(gameState) <= 0 => moves = <<>>

----------------------------------------------------------------------------
\* The moves the three attacker strategies return in state.
AttackerChoices(state, ns) ==
    {attackerGreedyDegree(state, ns),
     attackerHighSusceptibility(state, ns),
     attackerBridgeTargeting(state, ns)} \ {NoMove}

\* C32: in every state of a game, the move an attacker strategy returns
\* targets a susceptible node that has an infected neighbour (any
\* susceptible node while nothing is infected), and executeAttackerMove
\* does not reject it.
C32_AttackerMovesAccepted ==
    service = "game" =>
        \A move \in AttackerChoices(gameState, nodeState) :
            /\ move.type = "infect"
            /\ move.targetNodeId \in Range(nodes)
            /\ nodeState[move.targetNodeId] = "susceptible"
            /\ \/ Len(gameState.infectedNodes) = 0
               \/ hasInfectedNeighbor(gameState, move.targetNodeId)
            /\ \A success \in BOOLEAN :
                  executeAttackerMove(gameState, nodeState, move,
                                      success).outcome
                      \in {"infected", "failed"}

\* The move of the game's attacker strategy was just carried out and
\* infected its target; in the state it left the strategies return a move
\* again, and there is a susceptible node without infected neighbour that
\* they have to leave aside.
C32_Witness ==
    /\ service = "game"
    /\ lastCall.fn = "executeTurn"
    /\ lastCall.move.type = "infect" /\ lastCall.outcome = "infected"
    /\ Len(gameState.infectedNodes) > 0
    /\ AttackerChoices(gameState, nodeState) # {}
    /\ \E n \in Range(nodes) :
          /\ nodeState[n] = "susceptible"
          /\ ~hasInfectedNeighbor(gameState, n)

----------------------------------------------------------------------------
\* C33: in runSingleGame, a move defenderReactive returns on a defender
\* turn takes effect: defenderBudget goes down by 1, and an inoculate
\* move on a susceptible node leaves that node resistant.
C33_BenchmarkDefenderActs ==
    [][(service = "bench" /\ gameState' # gameState
           /\ lastCall'.player = "defender" /\ lastCall'.move # NoMove)
       => /\ gameState'.defenderBudget = gameState.defenderBudget - 1
          /\ (lastCall'.move.type = "inoculate"
                /\ nodeState[lastCall'.move.targetNodeId] = "susceptible")
               => nodeState'[lastCall'.move.targetNodeId] = "resistant"]_vars

----------------------------------------------------------------------------
\* C34: in a simulation run of estimateSpread on the network of a game, a
\* node whose state is resistant and that is no seed is never added to
\* infected.
C34_ResistantNotCounted ==
    (service = "celf" /\ celf.pc # "call") =>
        LET run == Cascade(NewRun(celf.seeds))
        IN  \A n \in run.infected \ Range(celf.seeds) :
               nodeState[n] # "resistant"

----------------------------------------------------------------------------
\* C35: when source and target are the same node of the network,
\* astarInfluencePath returns success with the path [source], cost 0 and
\* exploredCount 0 in both modes, and no neighbour has been expanded: one
\* entry was popped, nothing was closed, and no score but the source's
\* was recorded.
TrivialQuery ==
    Returned /\ startNodeId = targetNodeId /\ startNodeId \in NodeSet

C35_TrivialQuery ==
    TrivialQuery =>
        /\ result.success
        /\ result.path = <<startNodeId>>
        /\ result.cost = 0
        /\ result.exploredCount = 0
        /\ result.frames = 1
        /\ closedSet = {}
        /\ openSet = <<>>
        /\ DOMAIN gScores = {startNodeId}

C35_Witness ==
    /\ TrivialQuery
    /\ mode = "meme_trust"
    /\ getNeighbors(startNodeId) # <<>>
    /\ result.success
    /\ result.exploredCount = 0

----------------------------------------------------------------------------
\* C36: astarInfluencePath terminates on every finite graph in both modes:
\* every iteration of the while loop either closes a node that was not
\* closed, or removes a frontier entry of a closed node and adds none, so
\* the pair (nodes not closed, frontier entries of closed nodes) falls in
\* the lexicographic order.  An entry enters the frontier only when its g
\* is strictly below the best g known for its node (or none is known), and
\* exploredCount never exceeds the number of nodes.
Unclosed(closed) == Cardinality(NodeSet \ closed)

StaleEntries(open, closed) ==
    Cardinality({i \in 1..Len(open) : open[i].item.nodeId \in closed})

Occurrences(open, entry) ==
    Cardinality({i \in 1..Len(open) : open[i] = entry})

\* The entries of the frontier after the step that the step has pushed.
PushedEntries ==
    {entry \in Range(openSet') :
        Occurrences(openSet', entry)
           > Occurrences(IF openSet = <<>> THEN <<>> ELSE Tail(openSet),
                         entry)}

LoopMeasureFalls ==
    \/ Unclosed(closedSet') < Unclosed(closedSet)
    \/ /\ Unclosed(closedSet') = Unclosed(closedSet)
       /\ StaleEntries(openSet', closedSet')
             < StaleEntries(openSet, closedSet)

StrictImprovement(entry) ==
    /\ \/ entry.item.nodeId \notin DOMAIN gScores
       \/ entry.item.gScore < gScores[entry.item.nodeId]
    /\ gScores'[entry.item.nodeId] = entry.item.gScore

AStarLoopStep ==
    service = "astar" /\ pc = "loop" /\ pc' = "loop" /\ frames' # frames

C36_AStarTerminates ==
    /\ [][service = "astar" =>
            /\ AStarLoopStep => LoopMeasureFalls
            /\ \A entry \in PushedEntries : StrictImprovement(entry)]_vars
    /\ [](Returned => result.exploredCount <= Len(nodes))

\* A search that has returned after popping an entry of a node already
\* closed and after lowering a g that was known.
C36_Witness ==
    /\ Returned
    /\ ValidCall
    /\ \E i \in 1..Len(frames) :
          frames[i].currentNode \in frames[i].closedSet
    /\ \E i \in 1..Len(frames) : \E n \in DOMAIN frames[i].gScores :
          gScores[n] < frames[i].gScores[n]

----------------------------------------------------------------------------
\* C37: generateSmallWorldEdges terminates for every sequence of random
\* draws: the while loop of the rewiring always meets an index that is
\* neither the source nor a key of the source's trust_network, so the
\* generation never reaches the state in which that loop runs for ever.
C37_SmallWorldTerminates ==
    (service = "gen" /\ genConfig.type = "small-world") =>
        gen.pc # "diverged"

====
